---- MODULE Spec2Model ----
(***************************************************************************)
(* A model of the journaling application: the entry store                  *)
(* (services/storage.ts), the task normalizers (RecordView.normalizeTasks, *)
(* CalendarView.getTasksForEntry), the analysis client                     *)
(* (services/geminiService.ts) and the record view's draft handling        *)
(* (components/RecordView.tsx) under the view state controller (App.tsx).  *)
(*                                                                         *)
(* Strings of the source that are not ASCII (emoji, Chinese phrases) are   *)
(* written as ASCII names of the same literal; each is named where it is   *)
(* defined.                                                                *)
(***************************************************************************)
EXTENDS Integers, Sequences, FiniteSets, TLC

VARIABLES
    store,        \* localStorage["soullog_entries_v1"], parsed: a sequence of entries
    lastSaved,    \* history: per date, the entry of the last successful save (Null after a delete)
    lastOp,       \* history: the operation of the last step and what it acted on
    nEntry,       \* normalizer check: the persisted entry (date and tasks field) normalized
    nNow,         \* normalizer check: Date.now()
    nCal,         \* normalizer check: the runs of getTasksForEntry so far
    nRec,         \* normalizer check: the runs of normalizeTasks so far
    aCall,        \* analysis client check: the call made (function, arguments, what the provider answers)
    aOut,         \* analysis client check: how the call completed
    now,          \* Date.now()
    view,         \* App: 'calendar' | 'record'
    selectedDate, \* App: the selected date, "" when none
    entries,      \* App: the entries read by the last loadData()
    textInput,    \* RecordView: the draft's text
    images,       \* RecordView: the draft's images
    moodData,     \* RecordView: the draft's mood fields and task list, or Null
    audioBlob,    \* RecordView: the recorded audio, "" when none
    audioUrl,     \* RecordView: the audio shown by the player, "" when none
    isAnalyzing,  \* RecordView: the in-progress flag of handleAnalyze
    isSaving,     \* RecordView: the in-progress flag of handleSave
    showChat,     \* RecordView: the chat overlay is open
    isChatLoading, \* RecordView: a chat request is awaited
    chatMessages, \* RecordView: the chat transcript
    isRecording,  \* RecordView: a recording is active
    recorders,    \* the MediaRecorder objects that are recording
    timers,       \* the duration timers (setInterval) that are running
    editingTask,  \* CalendarView: the task being edited and its entry's date, or Null
    editText,     \* CalendarView: the text in the task edit modal
    showDeleteConfirm, \* RecordView: the delete confirmation modal is open
    pending       \* the awaited calls and timers of the record view, each with the
                  \* state its handler closed over when it was invoked

storeVars == <<store, lastSaved>>
normVars == <<nEntry, nNow, nCal, nRec>>
apiVars == <<aCall, aOut>>
appVars == <<view, selectedDate, entries>>
draftVars == <<textInput, images, moodData, audioBlob, audioUrl>>
flagVars == <<isAnalyzing, isSaving>>
chatVars == <<showChat, isChatLoading, chatMessages>>
recVars == <<isRecording, recorders, timers>>
modalVars == <<editingTask, editText, showDeleteConfirm>>
viewVars == <<now, view, selectedDate, entries, textInput, images, moodData, audioBlob,
              audioUrl, isAnalyzing, isSaving, showChat, isChatLoading, chatMessages,
              isRecording, recorders, timers, editingTask, editText, showDeleteConfirm, pending>>
vars == <<store, lastSaved, lastOp, nEntry, nNow, nCal, nRec, aCall, aOut, now, view,
          selectedDate, entries, textInput, images, moodData, audioBlob, audioUrl,
          isAnalyzing, isSaving, showChat, isChatLoading, chatMessages, isRecording,
          recorders, timers, editingTask, editText, showDeleteConfirm, pending>>

(***************************************************************************)
(* Values                                                                  *)
(***************************************************************************)

\* undefined / null of the source
Null == [null |-> TRUE]

\* the calendar dates of the model (YYYY-MM-DD strings)
Dates == {"2024-01-05", "2024-01-06"}

\* string helpers: String.prototype.includes and startsWith
Includes(s, m) == \E i \in 1..(Len(s) - Len(m) + 1) : SubSeq(s, i, i + Len(m) - 1) = m

StartsWith(s, p) == Len(s) >= Len(p) /\ SubSeq(s, 1, Len(p)) = p

\* a structured TaskItem
TaskItem(id, text, completed) ==
    [isString |-> FALSE, id |-> id, text |-> text, completed |-> completed]

\* a legacy task: a plain string in the persisted tasks array
LegacyTask(s) == [isString |-> TRUE, id |-> "", text |-> s, completed |-> FALSE]

\* a JournalEntry; audioBase64 = "" stands for the absent optional field
JournalEntry(id, date, audio, imgs, text, emoji, desc, key, score, tasks, created) ==
    [id |-> id, date |-> date, audioBase64 |-> audio, images |-> imgs,
     transcription |-> text, moodEmoji |-> emoji, moodDescription |-> desc,
     moodKey |-> key, moodScore |-> score, tasks |-> tasks, createdAt |-> created]

(***************************************************************************)
(* Entry store: services/storage.ts                                        *)
(***************************************************************************)

\* what the browser's quota allows the serialized collection to hold, in
\* payload units (one per entry, one per image, one per audio recording)
StorageQuota == 3

EntrySize(e) == 1 + Len(e.images) + (IF e.audioBase64 # "" THEN 1 ELSE 0)

RECURSIVE CollectionSize(_)
CollectionSize(st) ==
    IF st = <<>> THEN 0 ELSE EntrySize(Head(st)) + CollectionSize(Tail(st))

\* localStorage.setItem throws (QuotaExceededError) when the value does not fit
SetItemThrows(st) == CollectionSize(st) > StorageQuota

getEntries(st) == st

FilterOutDate(st, date) == SelectSeq(st, LAMBDA e : e.date # date)

\* Array.prototype.find over getEntries()
getEntryByDate(st, date) ==
    LET idx == {i \in DOMAIN st : st[i].date = date}
    IN  IF idx = {} THEN Null
        ELSE st[CHOOSE i \in idx : \A j \in idx : i <= j]

\* the collection saveEntry hands to setItem
SaveCandidateNoFilter(st, entry) == Append(st, entry)

SaveCandidate(st, entry) == Append(FilterOutDate(getEntries(st), entry.date), entry)

\* the persisted collection after saveEntry(entry): the write is dropped when
\* setItem throws (the catch block alerts and returns)
saveEntryTruncatesOnFailure(st, entry) ==
    IF SetItemThrows(SaveCandidate(st, entry))
    THEN FilterOutDate(getEntries(st), entry.date)
    ELSE SaveCandidate(st, entry)

saveEntry(st, entry) ==
    IF SetItemThrows(SaveCandidate(st, entry)) THEN st ELSE SaveCandidate(st, entry)

\* whether saveEntry raises to its caller: its catch block alerts, logs and
\* returns
saveEntryRaises(st, entry) == FALSE

\* the persisted collection after deleteEntry(date); the collection written is
\* never larger than the one stored, so setItem does not throw
deleteEntryClearsStore(st, date) ==
    IF getEntryByDate(st, date) # Null THEN <<>> ELSE getEntries(st)

deleteEntry(st, date) == FilterOutDate(getEntries(st), date)

\* the entries the store check saves
StoreEntryInputs ==
    { JournalEntry(id, d, "", imgs, text, "pencil", "", "neutral", 5, tasks, 1) :
        id \in {"1", "2"}, d \in Dates, imgs \in {<<>>, <<"img">>},
        text \in {"a", "b"},
        tasks \in {<<>>, <<TaskItem("manual-1", "t", FALSE)>>} }

IdleOp == [op |-> "none"]

StoreInit ==
    /\ store = <<>>
    /\ lastSaved = [d \in Dates |-> Null]

NormIdle ==
    /\ nEntry = Null
    /\ nNow = 0
    /\ nCal = <<>>
    /\ nRec = <<>>

ApiIdle ==
    /\ aCall = Null
    /\ aOut = Null

\* App and RecordView as constructed: the calendar is shown, no record view is mounted
ViewInit ==
    /\ now = 1
    /\ view = "calendar"
    /\ selectedDate = ""
    /\ entries = <<>>
    /\ textInput = ""
    /\ images = <<>>
    /\ moodData = Null
    /\ audioBlob = ""
    /\ audioUrl = ""
    /\ isAnalyzing = FALSE
    /\ isSaving = FALSE
    /\ showChat = FALSE
    /\ isChatLoading = FALSE
    /\ chatMessages = <<>>
    /\ isRecording = FALSE
    /\ recorders = 0
    /\ timers = 0
    /\ editingTask = Null
    /\ editText = ""
    /\ showDeleteConfirm = FALSE
    /\ pending = <<>>

InitStore ==
    /\ StoreInit
    /\ lastOp = IdleOp
    /\ NormIdle
    /\ ApiIdle
    /\ ViewInit

StoreSave(entry) ==
    /\ store' = saveEntry(store, entry)
    /\ lastSaved' = IF SetItemThrows(Append(FilterOutDate(store, entry.date), entry))
                    THEN lastSaved
                    ELSE [lastSaved EXCEPT ![entry.date] = entry]
    /\ lastOp' = [op |-> "saveEntry", date |-> entry.date,
                  had |-> (getEntryByDate(store, entry.date) # Null),
                  threw |-> SetItemThrows(Append(FilterOutDate(store, entry.date), entry))]
    /\ UNCHANGED <<normVars, apiVars, viewVars>>

StoreDelete(date) ==
    /\ store' = deleteEntry(store, date)
    /\ lastSaved' = [lastSaved EXCEPT ![date] = Null]
    /\ lastOp' = [op |-> "deleteEntry", date |-> date,
                  had |-> (getEntryByDate(store, date) # Null), threw |-> FALSE]
    /\ UNCHANGED <<normVars, apiVars, viewVars>>

NextStore ==
    \/ \E entry \in StoreEntryInputs : StoreSave(entry)
    \/ \E date \in Dates : StoreDelete(date)

SpecStore == InitStore /\ [][NextStore]_vars

\* C1: after any sequence of saveEntry and deleteEntry calls from the empty
\* store, the collection holds at most one entry per date and getEntryByDate(d)
\* is the entry most recently saved for d, absent if none was saved since the
\* last delete of d.
C1_OnePerDateLastSaved ==
    /\ \A i, j \in DOMAIN store : store[i].date = store[j].date => i = j
    /\ \A d \in Dates : getEntryByDate(store, d) = lastSaved[d]

\* an entry was saved over a stored entry of the same date, with another date stored too
C1_Witness ==
    /\ lastOp.op = "saveEntry" /\ lastOp.had /\ ~lastOp.threw
    /\ Len(store) = 2

\* C13: a saveEntry whose setItem throws for lack of capacity leaves the
\* persisted collection exactly as it was before the call, the stored entry
\* of the same date included.
C13_FailedSaveLeavesStore ==
    [][(lastOp'.op = "saveEntry" /\ lastOp'.threw) =>
           /\ getEntries(store') = getEntries(store)
           /\ \A d \in Dates : getEntryByDate(store', d) = getEntryByDate(store, d)]_vars

\* a save for a date that already has an entry failed for lack of capacity and
\* the stored entries are still there
C13_Witness ==
    /\ lastOp.op = "saveEntry" /\ lastOp.threw /\ lastOp.had
    /\ getEntryByDate(store, lastOp.date) # Null
    /\ Len(store) = 2

\* C21: deleteEntry(date) removes the entry for that date if one is stored and
\* is a no-op otherwise; the entries stored for every other date are
\* unchanged, and afterwards getEntryByDate(date) is absent.
C21_DeleteRemovesOnlyThatDate ==
    [][lastOp'.op = "deleteEntry" =>
           /\ getEntryByDate(store', lastOp'.date) = Null
           /\ \A d \in Dates \ {lastOp'.date} :
                  getEntryByDate(store', d) = getEntryByDate(store, d)
           /\ ~lastOp'.had => getEntries(store') = getEntries(store)
           /\ Len(store') = Len(store) - (IF lastOp'.had THEN 1 ELSE 0)]_vars

\* a stored entry was deleted and the entry of the other date is still stored
C21_Witness ==
    /\ lastOp.op = "deleteEntry" /\ lastOp.had
    /\ getEntryByDate(store, lastOp.date) = Null
    /\ Len(store) = 1

(***************************************************************************)
(* Task normalizers: RecordView.normalizeTasks, CalendarView.getTasksForEntry *)
(***************************************************************************)

\* a persisted tasks field: absent (undefined), or an array of elements
TasksAbsent == [present |-> FALSE, items |-> <<>>]

TasksField(items) == [present |-> TRUE, items |-> items]

\* the value an element contributes as text of a migrated task: the string
\* itself, or the element as it is when it is no string
ElementValue(t) == IF t.isString THEN t.text ELSE [object |-> t]

\* the template literal `legacy-${stamp}-${i}`
LegacyId(stamp, i) == "legacy-" \o stamp \o "-" \o ToString(i)

\* tasks.map((t, i) => ({ id: `legacy-${stamp}-${i}`, text: t, completed: false }))
MigrateLegacy(items, stamp) ==
    [k \in 1..Len(items) |->
        [isString |-> FALSE, id |-> LegacyId(stamp, k - 1),
         text |-> ElementValue(items[k]), completed |-> FALSE]]

\* CalendarView.getTasksForEntry(entry)
getTasksForEntry(date, field) ==
    IF ~field.present THEN <<>>
    ELSE IF Len(field.items) > 0 /\ field.items[1].isString
         THEN MigrateLegacy(field.items, date)
         ELSE field.items

\* RecordView.normalizeTasks(tasks), called when Date.now() = clock
normalizeTasksRestamp(field, clock) ==
    IF ~field.present THEN <<>>
    ELSE [k \in 1..Len(field.items) |->
            [field.items[k] EXCEPT !.id = LegacyId(ToString(clock), k - 1)]]

normalizeTasks(field, clock) ==
    IF ~field.present THEN <<>>
    ELSE IF Len(field.items) = 0 THEN <<>>
    ELSE IF field.items[1].isString
         THEN MigrateLegacy(field.items, ToString(clock))
         ELSE field.items

\* bounds of the normalizer check
MaxNormLen == 2

MaxNormRuns == 2

MaxNormNow == 2

NormElements ==
    { LegacyTask("buy milk"), LegacyTask("call mom"),
      TaskItem("ai-1-0", "buy milk", FALSE), TaskItem("manual-2", "rest", TRUE) }

RECURSIVE SeqsUpTo(_, _)
SeqsUpTo(S, n) ==
    IF n = 0 THEN {<<>>}
    ELSE LET shorter == SeqsUpTo(S, n - 1)
         IN  shorter \cup {Append(q, x) : q \in shorter, x \in S}

NormInputs ==
    { [date |-> d, tasks |-> f] :
        d \in Dates,
        f \in {TasksAbsent} \cup {TasksField(q) : q \in SeqsUpTo(NormElements, MaxNormLen)} }

IsStructured(field) ==
    field.present /\ \A k \in DOMAIN field.items : ~field.items[k].isString

IsLegacyFirst(field) ==
    field.present /\ Len(field.items) > 0 /\ field.items[1].isString

InitNorm ==
    /\ StoreInit
    /\ lastOp = IdleOp
    /\ nEntry \in NormInputs
    /\ nNow \in 1..MaxNormNow
    /\ nCal = <<>>
    /\ nRec = <<>>
    /\ ApiIdle
    /\ ViewInit

NormRun(input, output) == [input |-> input, output |-> output]

\* getTasksForEntry on the persisted entry
NormCalendar ==
    /\ Len(nCal) < MaxNormRuns
    /\ nCal' = Append(nCal, NormRun(nEntry.tasks, getTasksForEntry(nEntry.date, nEntry.tasks)))
    /\ lastOp' = [op |-> "getTasksForEntry"]
    /\ UNCHANGED <<storeVars, nEntry, nNow, nRec, apiVars, viewVars>>

\* getTasksForEntry on an entry that holds the result of an earlier run
NormCalendarAgain ==
    /\ Len(nCal) < MaxNormRuns
    /\ \E r \in {nCal[k] : k \in DOMAIN nCal} \cup {nRec[k] : k \in DOMAIN nRec} :
          nCal' = Append(nCal, NormRun(TasksField(r.output),
                                       getTasksForEntry(nEntry.date, TasksField(r.output))))
    /\ lastOp' = [op |-> "getTasksForEntryAgain"]
    /\ UNCHANGED <<storeVars, nEntry, nNow, nRec, apiVars, viewVars>>

\* normalizeTasks on the persisted entry's tasks
NormRecord ==
    /\ Len(nRec) < MaxNormRuns
    /\ nRec' = Append(nRec, NormRun(nEntry.tasks, normalizeTasks(nEntry.tasks, nNow)))
    /\ lastOp' = [op |-> "normalizeTasks"]
    /\ UNCHANGED <<storeVars, nEntry, nNow, nCal, apiVars, viewVars>>

\* normalizeTasks on the result of an earlier run
NormRecordAgain ==
    /\ Len(nRec) < MaxNormRuns
    /\ \E r \in {nCal[k] : k \in DOMAIN nCal} \cup {nRec[k] : k \in DOMAIN nRec} :
          nRec' = Append(nRec, NormRun(TasksField(r.output),
                                       normalizeTasks(TasksField(r.output), nNow)))
    /\ lastOp' = [op |-> "normalizeTasksAgain"]
    /\ UNCHANGED <<storeVars, nEntry, nNow, nCal, apiVars, viewVars>>

\* the clock advances between two runs
NormTick ==
    /\ nNow < MaxNormNow
    /\ nNow' = nNow + 1
    /\ lastOp' = [op |-> "tick"]
    /\ UNCHANGED <<storeVars, nEntry, nCal, nRec, apiVars, viewVars>>

NextNorm ==
    \/ NormCalendar
    \/ NormCalendarAgain
    \/ NormRecord
    \/ NormRecordAgain
    \/ NormTick

SpecNorm == InitNorm /\ [][NextNorm]_vars

NormRuns == {nCal[k] : k \in DOMAIN nCal} \cup {nRec[k] : k \in DOMAIN nRec}

\* C5: normalization is idempotent: both normalizers return an already
\* structured task list (the output of an earlier normalization included)
\* as it is, with the same ids in the same order.
C5_NormalizeIdempotent ==
    \A r \in NormRuns : IsStructured(r.input) => r.output = r.input.items

\* both normalizers have been run on the output of a legacy migration
C5_Witness ==
    /\ Len(nCal) = 2 /\ Len(nRec) = 2
    /\ IsLegacyFirst(nCal[1].input) /\ Len(nCal[1].input.items) = 2
    /\ nCal[2].input = TasksField(nCal[1].output)
    /\ nRec[2].input = TasksField(nCal[1].output)

\* the tasks a legacy list migrates to for date d
LegacyExpected(d, items) ==
    [k \in 1..Len(items) |->
        [isString |-> FALSE, id |-> LegacyId(d, k - 1),
         text |-> ElementValue(items[k]), completed |-> FALSE]]

\* C6: a list whose first element is a plain string is migrated as a whole,
\* element i becoming {id: "legacy-<d>-<i>", text, completed: false}, by both
\* normalizers, so that two runs on the same entry give the same ids.
C6_LegacyDeterministic ==
    \A r \in NormRuns :
        IsLegacyFirst(r.input) => r.output = LegacyExpected(nEntry.date, r.input.items)

\* C6 as far as it holds: the calendar normalizer alone
C6_CalendarLegacy ==
    \A k \in DOMAIN nCal :
        IsLegacyFirst(nCal[k].input) =>
            nCal[k].output = LegacyExpected(nEntry.date, nCal[k].input.items)

(***************************************************************************)
(* Analysis client: services/geminiService.ts                              *)
(***************************************************************************)

\* optional values: a string, a number or a tasks value that may be missing
NoneStr == [present |-> FALSE, v |-> ""]

SomeStr(x) == [present |-> TRUE, v |-> x]

NoneNum == [present |-> FALSE, v |-> 0]

SomeNum(n) == [present |-> TRUE, v |-> n]

\* JavaScript truthiness of an optional string and of an optional number
TruthyStr(f) == f.present /\ f.v # ""

TruthyNum(f) == f.present /\ f.v # 0

\* a tasks value: an array of strings, or some other JSON value (no array)
TasksArray(items) == [isArray |-> TRUE, items |-> items]

TasksNoArray == [isArray |-> FALSE, items |-> <<>>]

NoneTasks == [present |-> FALSE, v |-> TasksArray(<<>>)]

SomeTasks(t) == [present |-> TRUE, v |-> t]

\* const DEFAULT_KEY = ""
DEFAULT_KEY == ""

\* process.env.API_KEY, which the build defines as JSON.stringify("")
ENV_API_KEY == ""

\* getApiKey(): local is localStorage.getItem("openai_api_key")
getApiKeyNoPrefixCheck(local) ==
    IF TruthyStr(local) THEN local.v
    ELSE IF ENV_API_KEY # "" THEN ENV_API_KEY ELSE DEFAULT_KEY

getApiKey(local) ==
    IF TruthyStr(local) /\ StartsWith(local.v, "sk-") THEN local.v
    ELSE IF ENV_API_KEY # "" THEN ENV_API_KEY ELSE DEFAULT_KEY

\* getApiKey() in a build whose define sets process.env.API_KEY to env
getApiKeyInBuildAnyLocal(local, env) ==
    IF TruthyStr(local) THEN local.v
    ELSE IF env # "" THEN env ELSE DEFAULT_KEY

getApiKeyInBuild(local, env) ==
    IF TruthyStr(local) /\ StartsWith(local.v, "sk-") THEN local.v
    ELSE IF env # "" THEN env ELSE DEFAULT_KEY

\* literals of the source (the Chinese text and the emoji are named in ASCII)
MockTranscription == "demo: nice weather today, a walk in the park, relaxed"

MockEmoji == "sun-behind-cloud"

MockDescription == "demo mode (key needed)"

PlaceholderEmoji == "memo"

PlaceholderDescription == "recording"

GearEmoji == "gear"

GearDescription == "please configure key"

AnalysisUnfinished == "[analysis unfinished]"

VoiceLabel == "\n\n[voice record]: "

WhisperQuotaNote == "\n(speech-to-text demo: API quota exhausted)"

WhisperFailedNote == "\n(speech-to-text failed: check the key)"

DemoSummary == "[demo summary] a nice chat with the AI, API quota used up"

SummaryFailed == "cannot generate the summary, try again later"

QuotaReply == "(simulated reply) tell me more [API quota exhausted, automatic reply]"

ConnectionLostReply == "(AI connection lost, check the network or configure the key)"

KeyMissingMessage == "API Key missing. Please set it in Settings."

\* the fixed mood-key enumeration (the prompt of analyzeJournalEntry, MOOD_PALETTE)
MoodKeys == {"happy", "calm", "neutral", "sad", "anxious", "angry", "tired"}

AnalysisResult(text, emoji, desc, key, score, tasks) ==
    [transcription |-> text, moodEmoji |-> emoji, moodDescription |-> desc,
     moodKey |-> key, moodScore |-> score, tasks |-> tasks]

\* getMockAnalysis(text)
getMockAnalysis(text) ==
    AnalysisResult(IF text # "" THEN text ELSE MockTranscription,
                   MockEmoji, MockDescription, "happy", 8,
                   TasksArray(<<"Go to Settings", "Enter OpenAI API Key">>))

\* isQuotaError(error), on the message of the Error thrown
isQuotaErrorExact(msg) == msg = "insufficient_quota"

isQuotaError(msg) ==
    \/ Includes(msg, "quota")
    \/ Includes(msg, "429")
    \/ Includes(msg, "billing")
    \/ Includes(msg, "insufficient_quota")

\* how a helper call ends: a value returned or an Error thrown, and the
\* number of fetch() calls it made
Returned(value, fetches) == [threw |-> FALSE, msg |-> "", value |-> value, fetches |-> fetches]

Thrown(msg, fetches) == [threw |-> TRUE, msg |-> msg, value |-> Null, fetches |-> fetches]

\* what the provider answers to a request:
\*   network     fetch() rejects
\*   http_error  a non-ok response whose error envelope carries message (or none)
\*   bad_body    a response whose body is no JSON
\*   no_choices  an ok response without choices[0]
\*   ok          an ok response; content is message.content (chat) or text (whisper)
ProviderResponse(kind, message, content) ==
    [kind |-> kind, message |-> message, content |-> content]

\* message.content: its text, and what JSON.parse makes of it
\*   syntax_error (no JSON), null (the JSON value null), object
Content(text, json, obj) == [text |-> text, json |-> json, obj |-> obj]

ParsedObject(text, emoji, desc, key, score, tasks) ==
    [transcription |-> text, moodEmoji |-> emoji, moodDescription |-> desc,
     moodKey |-> key, moodScore |-> score, tasks |-> tasks]

EmptyObject == ParsedObject(NoneStr, NoneStr, NoneStr, NoneStr, NoneNum, NoneTasks)

PlainContent(text) == Content(text, "syntax_error", EmptyObject)

\* the request of callGPT and what it makes of the response
callGPTRequest(key, resp) ==
    CASE resp.kind = "network" -> Thrown("Failed to fetch", 1)
      [] resp.kind = "http_error" ->
            Thrown(IF TruthyStr(resp.message) THEN resp.message.v ELSE "OpenAI API Error", 1)
      [] resp.kind = "bad_body" -> Thrown("Unexpected token < in JSON at position 0", 1)
      [] resp.kind = "no_choices" ->
            Thrown("Cannot read properties of undefined (reading '0')", 1)
      [] OTHER -> Returned(resp.content, 1)

callGPTNoKeyCheck(key, resp) == callGPTRequest(key, resp)

\* callGPT(messages, model, jsonMode) with the credential key
callGPT(key, resp) ==
    IF key = "" THEN Thrown(KeyMissingMessage, 0)
    ELSE callGPTRequest(key, resp)

\* callWhisper(audioBase64) with the credential key
callWhisper(key, audio, resp) ==
    IF key = "" THEN Thrown(KeyMissingMessage, 0)
    ELSE CASE resp.kind = "network" -> Thrown("Failed to fetch", 1)
           [] resp.kind = "http_error" ->
                 Thrown(IF TruthyStr(resp.message) THEN resp.message.v
                        ELSE "Whisper Transcription Error", 1)
           [] resp.kind = "bad_body" -> Thrown("Unexpected token < in JSON at position 0", 1)
           [] OTHER -> Returned(resp.content.text, 1)

\* how an exported function completes: raised to the caller or returned value,
\* the fetch() calls made, and the text composed for the chat-completion request
Completion(raised, value, fetches, composed) ==
    [raised |-> raised, value |-> value, fetches |-> fetches, composed |-> composed]

\* summarizeChatSession(chatHistory)
summarizeChatSession(local, resp) ==
    LET g == callGPT(getApiKey(local), resp)
    IN  IF g.threw
        THEN Completion(FALSE, IF isQuotaError(g.msg) THEN DemoSummary ELSE SummaryFailed,
                        g.fetches, "")
        ELSE Completion(FALSE, g.value.text, g.fetches, "")

\* getChatReply(history, lastMessage)
getChatReply(local, resp) ==
    LET g == callGPT(getApiKey(local), resp)
    IN  IF g.threw
        THEN Completion(FALSE, IF isQuotaError(g.msg) THEN QuotaReply ELSE ConnectionLostReply,
                        g.fetches, "")
        ELSE Completion(FALSE, g.value.text, g.fetches, "")

\* step 1 of analyzeJournalEntry: finalTranscription after the Whisper call
ComposeTranscriptionNoteOnly(input, audio, w) ==
    IF audio = "" THEN input
    ELSE IF ~w.threw
         THEN (IF input # "" THEN input \o VoiceLabel \o w.value ELSE w.value)
         ELSE IF isQuotaError(w.msg) THEN WhisperQuotaNote
              ELSE WhisperFailedNote

ComposeTranscription(input, audio, w) ==
    IF audio = "" THEN input
    ELSE IF ~w.threw
         THEN (IF input # "" THEN input \o VoiceLabel \o w.value ELSE w.value)
         ELSE IF isQuotaError(w.msg) THEN input \o WhisperQuotaNote
              ELSE input \o WhisperFailedNote

\* the object analyzeJournalEntry returns from the parsed response
FromParsedAllOrNothing(parsed, finalTranscription) ==
    IF /\ TruthyStr(parsed.transcription) /\ TruthyStr(parsed.moodEmoji)
       /\ TruthyStr(parsed.moodDescription) /\ TruthyStr(parsed.moodKey)
       /\ TruthyNum(parsed.moodScore) /\ parsed.tasks.present
    THEN AnalysisResult(parsed.transcription.v, parsed.moodEmoji.v, parsed.moodDescription.v,
                        parsed.moodKey.v, parsed.moodScore.v, parsed.tasks.v)
    ELSE AnalysisResult(finalTranscription, PlaceholderEmoji, PlaceholderDescription,
                        "neutral", 5, TasksArray(<<>>))

FromParsed(parsed, finalTranscription) ==
    AnalysisResult(
        IF TruthyStr(parsed.transcription) THEN parsed.transcription.v ELSE finalTranscription,
        IF TruthyStr(parsed.moodEmoji) THEN parsed.moodEmoji.v ELSE PlaceholderEmoji,
        IF TruthyStr(parsed.moodDescription) THEN parsed.moodDescription.v
        ELSE PlaceholderDescription,
        IF TruthyStr(parsed.moodKey) THEN parsed.moodKey.v ELSE "neutral",
        IF TruthyNum(parsed.moodScore) THEN parsed.moodScore.v ELSE 5,
        IF parsed.tasks.present THEN parsed.tasks.v ELSE TasksArray(<<>>))

\* the try block of analyzeJournalEntry: the result, or the Error thrown in it
AnalyzeTry(key, audio, input, wresp, gresp) ==
    LET w == IF audio # "" THEN callWhisper(key, audio, wresp) ELSE Returned("", 0)
        finalTranscription == ComposeTranscription(input, audio, w)
        g == callGPT(key, gresp)
        n == w.fetches + g.fetches
    IN  IF g.threw THEN [threw |-> TRUE, msg |-> g.msg, value |-> Null,
                         fetches |-> n, composed |-> finalTranscription]
        ELSE IF g.value.json = "syntax_error"
        THEN [threw |-> TRUE,
              msg |-> "Unexpected token, \"" \o g.value.text \o "\" is not valid JSON",
              value |-> Null, fetches |-> n, composed |-> finalTranscription]
        ELSE IF g.value.json = "null"
        THEN [threw |-> TRUE, msg |-> "Cannot read properties of null (reading 'transcription')",
              value |-> Null, fetches |-> n, composed |-> finalTranscription]
        ELSE [threw |-> FALSE, msg |-> "",
              value |-> FromParsed(g.value.obj, finalTranscription),
              fetches |-> n, composed |-> finalTranscription]

\* the catch block of analyzeJournalEntry
AnalyzeCatchAlwaysMock(msg, input) == getMockAnalysis(input)

AnalyzeCatch(msg, input) ==
    IF isQuotaError(msg) THEN getMockAnalysis(input)
    ELSE AnalysisResult(IF input # "" THEN input ELSE AnalysisUnfinished,
                        GearEmoji, GearDescription, "neutral", 5, TasksArray(<<>>))

\* analyzeJournalEntry(audioBase64, textInput, images, audioMimeType)
analyzeJournalEntryNoCatch(local, audio, input, wresp, gresp) ==
    LET t == AnalyzeTry(getApiKey(local), audio, input, wresp, gresp)
    IN  Completion(t.threw, t.value, t.fetches, t.composed)

analyzeJournalEntry(local, audio, input, wresp, gresp) ==
    LET t == AnalyzeTry(getApiKey(local), audio, input, wresp, gresp)
    IN  IF t.threw
        THEN Completion(FALSE, AnalyzeCatch(t.msg, input), t.fetches, t.composed)
        ELSE Completion(FALSE, t.value, t.fetches, t.composed)

\* ---- the calls of the analysis client check ----

LocalKeys == {NoneStr, SomeStr("my-key"), SomeStr("sk-test")}

Audios == {"", "data:audio/webm;base64,QQ=="}

Texts == {"", "went for a walk"}

ProviderMessages ==
    { NoneStr,
      SomeStr("You exceeded your current quota: insufficient_quota"),
      SomeStr("Rate limit reached (429)"),
      SomeStr("Your billing hard limit has been reached"),
      SomeStr("Incorrect API key provided") }

FailureResponses ==
    { ProviderResponse("network", NoneStr, PlainContent("")),
      ProviderResponse("bad_body", NoneStr, PlainContent("")) }
    \cup { ProviderResponse("http_error", m, PlainContent("")) : m \in ProviderMessages }

WhisperResponses ==
    FailureResponses \cup {ProviderResponse("ok", NoneStr, PlainContent("spoken words"))}

ProviderObjects ==
    { ParsedObject(text, emoji, desc, key, score, tasks) :
        text \in {NoneStr, SomeStr(""), SomeStr("cleaned text")},
        emoji \in {NoneStr, SomeStr("smile")},
        desc \in {NoneStr, SomeStr("quiet afternoon")},
        key \in {NoneStr, SomeStr("sad"), SomeStr("excited")},
        score \in {NoneNum, SomeNum(0), SomeNum(7), SomeNum(11)},
        tasks \in {NoneTasks, SomeTasks(TasksArray(<<"call mom">>)), SomeTasks(TasksNoArray)} }

GptResponses ==
    FailureResponses
    \cup { ProviderResponse("no_choices", NoneStr, PlainContent("")),
           ProviderResponse("ok", NoneStr, PlainContent("Sorry, I cannot help")),
           ProviderResponse("ok", NoneStr, PlainContent("")),
           ProviderResponse("ok", NoneStr, Content("null", "null", EmptyObject)) }
    \cup { ProviderResponse("ok", NoneStr, Content("{...}", "object", o)) : o \in ProviderObjects }

ApiCall(fn, local, audio, text, wresp, gresp) ==
    [fn |-> fn, local |-> local, audio |-> audio, text |-> text,
     wresp |-> wresp, gresp |-> gresp]

NoWhisper == ProviderResponse("network", NoneStr, PlainContent(""))

ApiCalls ==
    { ApiCall("analyzeJournalEntry", k, a, t, w, g) :
        k \in LocalKeys, a \in Audios, t \in Texts,
        w \in WhisperResponses, g \in GptResponses }
    \cup { ApiCall(fn, k, "", "", NoWhisper, g) :
        fn \in {"getChatReply", "summarizeChatSession"},
        k \in LocalKeys, g \in GptResponses }

InitApi ==
    /\ StoreInit
    /\ lastOp = IdleOp
    /\ NormIdle
    /\ aCall \in ApiCalls
    /\ aOut = Null
    /\ ViewInit

ApiAnalyze ==
    /\ aOut = Null
    /\ aCall.fn = "analyzeJournalEntry"
    /\ aOut' = analyzeJournalEntry(aCall.local, aCall.audio, aCall.text, aCall.wresp, aCall.gresp)
    /\ lastOp' = [op |-> "analyzeJournalEntry"]
    /\ UNCHANGED <<storeVars, normVars, aCall, viewVars>>

ApiChatReply ==
    /\ aOut = Null
    /\ aCall.fn = "getChatReply"
    /\ aOut' = getChatReply(aCall.local, aCall.gresp)
    /\ lastOp' = [op |-> "getChatReply"]
    /\ UNCHANGED <<storeVars, normVars, aCall, viewVars>>

ApiSummarize ==
    /\ aOut = Null
    /\ aCall.fn = "summarizeChatSession"
    /\ aOut' = summarizeChatSession(aCall.local, aCall.gresp)
    /\ lastOp' = [op |-> "summarizeChatSession"]
    /\ UNCHANGED <<storeVars, normVars, aCall, viewVars>>

NextApi ==
    \/ ApiAnalyze
    \/ ApiChatReply
    \/ ApiSummarize

SpecApi == InitApi /\ [][NextApi]_vars

AnalyzeDone == aOut # Null /\ aCall.fn = "analyzeJournalEntry"

AnalysisResultFields ==
    {"transcription", "moodEmoji", "moodDescription", "moodKey", "moodScore", "tasks"}

\* C7: analyzeJournalEntry never raises to its caller: whatever fails
\* (transcription, chat completion, credential, parsing, response shape), the
\* call completes by returning an AnalysisResult value.
C7_AnalyzeNeverRaises ==
    AnalyzeDone => ~aOut.raised /\ DOMAIN aOut.value = AnalysisResultFields

\* the call completed although the transcription failed and the response did not parse
C7_Witness ==
    /\ AnalyzeDone
    /\ aCall.audio # "" /\ aCall.wresp.kind = "http_error"
    /\ getApiKey(aCall.local) # ""
    /\ aCall.gresp.kind = "ok" /\ aCall.gresp.content.json = "syntax_error"

\* no local key with the "sk-" prefix (the build's default is empty)
NoCredential == ~(TruthyStr(aCall.local) /\ StartsWith(aCall.local.v, "sk-"))

\* C8: with no configured credential, analyzeJournalEntry, getChatReply and
\* summarizeChatSession make no network request, with or without audio, and
\* analyzeJournalEntry returns a result whose moodKey is "neutral".
C8_NoCredentialNoRequest ==
    (aOut # Null /\ NoCredential) =>
        /\ aOut.fetches = 0
        /\ aCall.fn = "analyzeJournalEntry" => aOut.value.moodKey = "neutral"

\* an analysis with audio completed with a local key that lacks the prefix
C8_Witness ==
    /\ AnalyzeDone
    /\ aCall.local = SomeStr("my-key")
    /\ aCall.audio # ""

\* the markers of a quota failure in a provider's error message
QuotaMarkers == {"quota", "429", "billing", "insufficient_quota"}

HasQuotaMarker(msg) == \E m \in QuotaMarkers : Includes(msg, m)

\* the chat-completion call of the analysis failed, with this message
GptFailure == callGPT(getApiKey(aCall.local), aCall.gresp)

C10_ResultInRange ==
    AnalyzeDone => aOut.value.moodScore \in 1..10 /\ aOut.value.moodKey \in MoodKeys

\* the provider answered the chat-completion request of analyzeJournalEntry
\* with a JSON object, and the call returned what it made of it
AnalyzeSucceeded ==
    /\ AnalyzeDone
    /\ getApiKey(aCall.local) # ""
    /\ aCall.gresp.kind = "ok"
    /\ aCall.gresp.content.json = "object"

ParsedOf(call) == call.gresp.content.obj

\* C11 as stated: on a successful provider response each missing field is
\* defaulted independently (placeholder emoji and phrase, "neutral", 5, empty
\* list, the composed text) and every field present is returned as given.
C11_MissingDefaultedPresentAsGiven ==
    AnalyzeSucceeded =>
        LET o == ParsedOf(aCall)
            r == aOut.value
        IN  /\ r.transcription = IF o.transcription.present THEN o.transcription.v
                                 ELSE aOut.composed
            /\ r.moodEmoji = IF o.moodEmoji.present THEN o.moodEmoji.v ELSE PlaceholderEmoji
            /\ r.moodDescription = IF o.moodDescription.present THEN o.moodDescription.v
                                   ELSE PlaceholderDescription
            /\ r.moodKey = IF o.moodKey.present THEN o.moodKey.v ELSE "neutral"
            /\ r.moodScore = IF o.moodScore.present THEN o.moodScore.v ELSE 5
            /\ r.tasks = IF o.tasks.present THEN o.tasks.v ELSE TasksArray(<<>>)

\* C11 amended: a field that is missing or present with a falsy value (empty
\* string, 0) is defaulted, independently of the other fields; every field
\* present with a truthy value is returned as given.
C11_FalsyDefaultedTruthyAsGiven ==
    AnalyzeSucceeded =>
        LET o == ParsedOf(aCall)
            r == aOut.value
        IN  /\ r.transcription = IF o.transcription.present /\ o.transcription.v # ""
                                 THEN o.transcription.v ELSE aOut.composed
            /\ r.moodEmoji = IF o.moodEmoji.present /\ o.moodEmoji.v # ""
                             THEN o.moodEmoji.v ELSE PlaceholderEmoji
            /\ r.moodDescription = IF o.moodDescription.present /\ o.moodDescription.v # ""
                                   THEN o.moodDescription.v ELSE PlaceholderDescription
            /\ r.moodKey = IF o.moodKey.present /\ o.moodKey.v # ""
                           THEN o.moodKey.v ELSE "neutral"
            /\ r.moodScore = IF o.moodScore.present /\ o.moodScore.v # 0
                             THEN o.moodScore.v ELSE 5
            /\ r.tasks = IF o.tasks.present THEN o.tasks.v ELSE TasksArray(<<>>)

\* a response that carries a key and a score of 0 but no emoji and no tasks:
\* the key is returned, the emoji and the tasks are defaulted, the score is 5
C11_Witness ==
    /\ AnalyzeSucceeded
    /\ ParsedOf(aCall).moodKey = SomeStr("sad") /\ aOut.value.moodKey = "sad"
    /\ ~ParsedOf(aCall).moodEmoji.present /\ aOut.value.moodEmoji = PlaceholderEmoji
    /\ ~ParsedOf(aCall).tasks.present /\ aOut.value.tasks = TasksArray(<<>>)
    /\ ParsedOf(aCall).moodScore = SomeNum(0) /\ aOut.value.moodScore = 5
    /\ ParsedOf(aCall).transcription = SomeStr("") /\ aOut.value.transcription = aOut.composed

\* the call had audio and its speech-to-text step failed
WhisperOf(call) == callWhisper(getApiKey(call.local), call.audio, call.wresp)

WhisperFailed == AnalyzeDone /\ aCall.audio # "" /\ WhisperOf(aCall).threw

FailureNotes == {WhisperQuotaNote, WhisperFailedNote}

ComposedWithNote == \E note \in FailureNotes : aOut.composed = aCall.text \o note

\* the fetch() calls of the chat-completion step
GptFetches == aOut.fetches - WhisperOf(aCall).fetches

\* C12 as stated: when audio is present and the speech-to-text call fails for
\* any reason (quota and missing credential included), the composed text is the
\* text input followed by a failure note and the chat-completion request is
\* still made.
C12_WhisperFailureStillRequests ==
    WhisperFailed => ComposedWithNote /\ GptFetches = 1

\* C12 amended: when the speech-to-text call fails the composed text is the
\* text input followed by a failure note; the chat-completion request is made
\* when a credential is configured, and with none the call returns the generic
\* fallback, which carries the text input, without any request.
C12_WhisperFailureKeepsText ==
    WhisperFailed =>
        /\ ComposedWithNote
        /\ aOut.composed =
              aCall.text \o (IF isQuotaError(WhisperOf(aCall).msg) THEN WhisperQuotaNote
                             ELSE WhisperFailedNote)
        /\ getApiKey(aCall.local) # "" => GptFetches = 1
        /\ getApiKey(aCall.local) = "" =>
              /\ aOut.fetches = 0
              /\ aOut.value.moodEmoji = GearEmoji
              /\ aOut.value.transcription =
                    IF aCall.text # "" THEN aCall.text ELSE AnalysisUnfinished

\* the speech-to-text request failed on quota, the chat-completion request
\* was made and answered, and the result's transcription is the text input
\* followed by the quota note
C12_Witness ==
    /\ WhisperFailed
    /\ aCall.text # ""
    /\ isQuotaError(WhisperOf(aCall).msg)
    /\ aOut.fetches = 2
    /\ AnalyzeSucceeded
    /\ aOut.value.transcription = aCall.text \o WhisperQuotaNote

ChatDone == aOut # Null /\ aCall.fn \in {"getChatReply", "summarizeChatSession"}

\* the scripted strings of the chat functions: on a quota failure, on any other
ScriptedOnQuota(fn) == IF fn = "getChatReply" THEN QuotaReply ELSE DemoSummary

ScriptedOnFailure(fn) == IF fn = "getChatReply" THEN ConnectionLostReply ELSE SummaryFailed

\* C20: getChatReply and summarizeChatSession never raise to the caller: when
\* the chat-completion call fails they return the scripted quota reply / demo
\* summary if the error message carries a quota, billing or rate-limit marker,
\* and the generic apology / fallback sentence for every other failure, a
\* missing credential included.
C20_ChatFunctionsNeverRaise ==
    ChatDone =>
        /\ ~aOut.raised
        /\ GptFailure.threw =>
              aOut.value = (IF HasQuotaMarker(GptFailure.msg)
                            THEN ScriptedOnQuota(aCall.fn)
                            ELSE ScriptedOnFailure(aCall.fn))
        /\ getApiKey(aCall.local) = "" =>
              aOut.value = ScriptedOnFailure(aCall.fn) /\ aOut.fetches = 0

\* summarizeChatSession returned the demo summary after a rate-limit failure
C20_Witness ==
    /\ ChatDone /\ aCall.fn = "summarizeChatSession"
    /\ GptFailure.threw /\ Includes(GptFailure.msg, "429")
    /\ aOut.value = DemoSummary

\* ---- the credential: CalendarView.saveApiKey / clearApiKey and getApiKey ----

\* localStorage["openai_api_key"] before the settings panel is used, the
\* build's process.env.API_KEY, and what the user types into the key input
StoredKeys == {NoneStr, SomeStr("my-key"), SomeStr("sk-old")}

BuildKeys == {"", "sk-build", "build-key"}

KeyInputs == {"", "my-key", "sk-", "sk-test"}

\* the settings state after CalendarView's mount effect
KeyCall(local, env) ==
    [fn |-> "getApiKey", local |-> local, env |-> env,
     apiKeyInput |-> IF TruthyStr(local) /\ StartsWith(local.v, "sk-") THEN local.v ELSE "",
     hasKey |-> (TruthyStr(local) /\ StartsWith(local.v, "sk-"))]

InitKey ==
    /\ StoreInit
    /\ lastOp = IdleOp
    /\ NormIdle
    /\ aCall \in { KeyCall(l, e) : l \in StoredKeys, e \in BuildKeys }
    /\ aOut = Null
    /\ ViewInit

\* the key input's onChange
SetApiKeyInput(input) ==
    /\ aCall' = [aCall EXCEPT !.apiKeyInput = input]
    /\ lastOp' = IdleOp
    /\ UNCHANGED <<storeVars, normVars, aOut, viewVars>>

\* saveApiKey()
saveApiKey ==
    /\ aCall' = IF StartsWith(aCall.apiKeyInput, "sk-")
                THEN [aCall EXCEPT !.local = SomeStr(aCall.apiKeyInput), !.hasKey = TRUE]
                ELSE aCall
    /\ aOut' = Null
    /\ lastOp' = [op |-> "saveApiKey", saved |-> StartsWith(aCall.apiKeyInput, "sk-")]
    /\ UNCHANGED <<storeVars, normVars, viewVars>>

\* clearApiKey(): its button is shown while the key input is not empty
clearApiKey ==
    /\ aCall.apiKeyInput # ""
    /\ aCall' = [aCall EXCEPT !.local = NoneStr, !.apiKeyInput = "", !.hasKey = FALSE]
    /\ aOut' = Null
    /\ lastOp' = [op |-> "clearApiKey"]
    /\ UNCHANGED <<storeVars, normVars, viewVars>>

\* a provider call resolves its bearer credential with getApiKey()
KeyResolve ==
    /\ aOut = Null
    /\ aOut' = SomeStr(getApiKeyInBuild(aCall.local, aCall.env))
    /\ lastOp' = [op |-> "getApiKey"]
    /\ UNCHANGED <<storeVars, normVars, aCall, viewVars>>

NextKey ==
    \/ \E input \in KeyInputs : SetApiKeyInput(input)
    \/ saveApiKey
    \/ clearApiKey
    \/ KeyResolve

SpecKey == InitKey /\ [][NextKey]_vars

HasLocalKey == aCall.local.present /\ StartsWith(aCall.local.v, "sk-")

\* C25: the credential of a provider call is the local key whenever it is
\* present and begins with "sk-", and the environment/build-time default
\* otherwise; a stored value without the prefix is never the credential.
C25_LocalKeyFirst ==
    aOut # Null =>
        /\ HasLocalKey => aOut.v = aCall.local.v
        /\ ~HasLocalKey => aOut.v = (IF aCall.env # "" THEN aCall.env ELSE DEFAULT_KEY)
        /\ (aCall.local.present /\ ~StartsWith(aCall.local.v, "sk-"))
              => aOut.v # aCall.local.v

\* a stored value without the prefix was passed over for the build's key
C25_Witness ==
    /\ aOut # Null
    /\ aCall.local = SomeStr("my-key")
    /\ aCall.env = "sk-build"
    /\ aOut.v = "sk-build"

\* a key saved in the settings panel is the credential, the build's key is not
C25_SavedWitness ==
    /\ aOut # Null
    /\ aCall.local = SomeStr("sk-test")
    /\ aCall.env = "sk-build"
    /\ aOut.v = "sk-test"

(***************************************************************************)
(* Mood palette: utils.ts                                                  *)
(***************************************************************************)

MoodColorDefinition(light, medium, strong) ==
    [light |-> light, medium |-> medium, strong |-> strong]

MOOD_PALETTE ==
    [k \in MoodKeys |->
        CASE k = "happy"   -> MoodColorDefinition("#FFF5D1", "#FFD166", "#F4B942")
          [] k = "calm"    -> MoodColorDefinition("#E0F5F5", "#A8DADC", "#457B9D")
          [] k = "neutral" -> MoodColorDefinition("#F2F0E9", "#A3A398", "#5C5C54")
          [] k = "sad"     -> MoodColorDefinition("#E3E6F5", "#7D8CC4", "#5C6AA8")
          [] k = "anxious" -> MoodColorDefinition("#FFEBD6", "#F4A261", "#E76F51")
          [] k = "angry"   -> MoodColorDefinition("#FFE0DB", "#E76F51", "#C0392B")
          [] OTHER         -> MoodColorDefinition("#E8EDF2", "#94A3B8", "#475569")]

MoodIntensity == {"light", "medium", "strong"}

\* names that MOOD_PALETTE, an object literal, inherits from Object.prototype:
\* MOOD_PALETTE[name] is a function or object, hence truthy, for each of them
ObjectPrototypeKeys == {"constructor", "toString", "valueOf", "hasOwnProperty", "__proto__"}

\* MOOD_PALETTE[key] ? key : 'neutral'
SafeKey(key) ==
    IF key \in DOMAIN MOOD_PALETTE \/ key \in ObjectPrototypeKeys THEN key ELSE "neutral"

\* MOOD_PALETTE[safeKey][type]: a colour, or undefined (NoneStr) when
\* MOOD_PALETTE[safeKey] is an inherited member, which has no such property
PaletteColor(safeKey, type) ==
    IF safeKey \in DOMAIN MOOD_PALETTE THEN SomeStr(MOOD_PALETTE[safeKey][type]) ELSE NoneStr

\* getMoodColor(key, score, type)
getMoodColor(key, score, type) == PaletteColor(SafeKey(key), type)

getMoodColorByScoreExclusive(key, score) ==
    IF score > 8 THEN PaletteColor(SafeKey(key), "strong")
    ELSE IF score > 4 THEN PaletteColor(SafeKey(key), "medium")
    ELSE PaletteColor(SafeKey(key), "light")

\* getMoodColorByScore(key, score)
getMoodColorByScore(key, score) ==
    IF score >= 8 THEN PaletteColor(SafeKey(key), "strong")
    ELSE IF score >= 4 THEN PaletteColor(SafeKey(key), "medium")
    ELSE PaletteColor(SafeKey(key), "light")

\* the keys and scores the palette check resolves
ColorKeys == MoodKeys \cup {"excited", "unknown_key", "", "constructor", "toString"}

MaxColorScore == 11

ColorScores == 0..MaxColorScore

ColorCalls ==
    { [fn |-> "getMoodColor", key |-> k, score |-> n, type |-> t] :
        k \in ColorKeys, n \in ColorScores, t \in MoodIntensity }
    \cup { [fn |-> "getMoodColorByScore", key |-> k, score |-> n, type |-> "medium"] :
        k \in ColorKeys, n \in ColorScores }

InitColor ==
    /\ StoreInit
    /\ lastOp = IdleOp
    /\ NormIdle
    /\ aCall \in ColorCalls
    /\ aOut = Null
    /\ ViewInit

ColorByKey ==
    /\ aOut = Null
    /\ aCall.fn = "getMoodColor"
    /\ aOut' = getMoodColor(aCall.key, aCall.score, aCall.type)
    /\ lastOp' = [op |-> "getMoodColor"]
    /\ UNCHANGED <<storeVars, normVars, aCall, viewVars>>

ColorByScore ==
    /\ aOut = Null
    /\ aCall.fn = "getMoodColorByScore"
    /\ aOut' = getMoodColorByScore(aCall.key, aCall.score)
    /\ lastOp' = [op |-> "getMoodColorByScore"]
    /\ UNCHANGED <<storeVars, normVars, aCall, viewVars>>

NextColor ==
    \/ ColorByKey
    \/ ColorByScore

SpecColor == InitColor /\ [][NextColor]_vars

ColorDone == aOut # Null

\* what the same call gives for the key "neutral"
NeutralColor ==
    IF aCall.fn = "getMoodColor" THEN getMoodColor("neutral", aCall.score, aCall.type)
    ELSE getMoodColorByScore("neutral", aCall.score)

\* C23: for every mood key that is not one of the palette's keys, and every
\* tier and score, getMoodColor and getMoodColorByScore return what they
\* return for "neutral".
C23_UnknownKeyIsNeutral ==
    (ColorDone /\ aCall.key \notin MoodKeys) => aOut = NeutralColor

\* C23 for the keys that name no member of Object.prototype
C23_UnknownOwnKeyIsNeutral ==
    (ColorDone /\ aCall.key \notin MoodKeys /\ aCall.key \notin ObjectPrototypeKeys)
        => aOut = NeutralColor

\* the tier the claim assigns to an integer score
ScoreTier(score) ==
    IF score >= 8 THEN "strong" ELSE IF score <= 3 THEN "light" ELSE "medium"

\* C24: getMoodColorByScore returns the colour of the resolved key at the tier
\* of the score: strong from 8 up, medium from 4 to 7, light up to 3.
C24_ScoreBuckets ==
    (ColorDone /\ aCall.fn = "getMoodColorByScore") =>
        /\ aOut = PaletteColor(SafeKey(aCall.key), ScoreTier(aCall.score))
        /\ aCall.score \in {1, 3} /\ aCall.key \in MoodKeys
              => aOut = SomeStr(MOOD_PALETTE[aCall.key].light)
        /\ aCall.score \in {4, 7} /\ aCall.key \in MoodKeys
              => aOut = SomeStr(MOOD_PALETTE[aCall.key].medium)
        /\ aCall.score \in {8, 10} /\ aCall.key \in MoodKeys
              => aOut = SomeStr(MOOD_PALETTE[aCall.key].strong)

\* the boundary score 8 of a palette key resolved to the strong colour
C24_Witness ==
    /\ ColorDone /\ aCall.fn = "getMoodColorByScore"
    /\ aCall.key = "sad" /\ aCall.score = 8
    /\ aOut = SomeStr("#5C6AA8")

(***************************************************************************)
(* View state controller (App.tsx) and record view (RecordView.tsx)        *)
(***************************************************************************)

\* the clock values Date.now() takes
MaxNow == 2

\* the longest task list of a draft
MaxTasks == 2

\* the most awaited calls and timers outstanding at a time
MaxPending == 2

\* the dates the record view is opened for
RecordDates == {"2024-01-05"}

\* what the user types into the text area
TypedTexts == {"", "a long day at work"}

\* the image a user uploads (blobToBase64 of the file)
UploadedImage == "data:image/png;base64,AA=="

\* the text of a task the user adds
NewTaskTexts == {"buy milk"}

\* the provider and the credential while the record view is in use
RecordLocalKeys == {SomeStr("sk-test")}

RecordWhisperResponses ==
    { ProviderResponse("ok", NoneStr, PlainContent("spoken words")) }

\* a well-formed answer with one task; an answer whose key and score are outside
\* the documented ranges; an answer whose tasks value is no array; no answer
RecordGptResponses ==
    { ProviderResponse("ok", NoneStr, Content("{...}", "object",
          ParsedObject(SomeStr("cleaned text"), SomeStr("smile"), SomeStr("quiet afternoon"),
                       SomeStr("sad"), SomeNum(7), SomeTasks(TasksArray(<<"call mom">>))))),
      ProviderResponse("ok", NoneStr, Content("{...}", "object",
          ParsedObject(SomeStr("cleaned text"), NoneStr, NoneStr, SomeStr("excited"),
                       SomeNum(11), NoneTasks))),
      ProviderResponse("ok", NoneStr, Content("{...}", "object",
          ParsedObject(SomeStr("cleaned text"), NoneStr, NoneStr, NoneStr, NoneNum,
                       SomeTasks(TasksNoArray)))),
      ProviderResponse("network", NoneStr, PlainContent("")) }

RecordSummaryResponses ==
    { ProviderResponse("ok", NoneStr, PlainContent("I talked about my day")) }

\* the greeting startChat puts into an empty transcript
ChatGreeting == [role |-> "model", text |-> "hello, how was your day?"]

\* the template literals `ai-${Date.now()}-${i}` and `manual-${Date.now()}`
AiId(t, i) == "ai-" \o ToString(t) \o "-" \o ToString(i)

ManualId(t) == "manual-" \o ToString(t)

\* blobToBase64(blob) and URL.createObjectURL(blob)
blobToBase64(blob) == "data:audio/webm;base64," \o blob

createObjectURL(blob) == "blob:" \o blob

RemoveAt(q, i) == SubSeq(q, 1, i - 1) \o SubSeq(q, i + 1, Len(q))

\* App: const activeEntry = entries.find(e => e.date === selectedDate)
activeEntry(es, date) == getEntryByDate(es, date)

existingEntry == activeEntry(entries, selectedDate)

\* moodData?.tasks || []
TasksOf(md) == IF md = Null THEN <<>> ELSE md.tasks

MoodData(emoji, desc, key, score, tasks) ==
    [emoji |-> emoji, desc |-> desc, key |-> key, score |-> score, tasks |-> tasks]

\* the draft the record view shows for existing (useState initial values and
\* the sync effect): [textInput, images, moodData, audioBlob, audioUrl]
Draft(text, imgs, md, blob, url) ==
    [textInput |-> text, images |-> imgs, moodData |-> md, audioBlob |-> blob, audioUrl |-> url]

\* the sync effect's "Load Existing" branch; blob is the audioBlob before it
LoadExisting(existing, blob, t) ==
    Draft(existing.transcription, existing.images,
          MoodData(IF existing.moodEmoji # "" THEN existing.moodEmoji ELSE PlaceholderEmoji,
                   existing.moodDescription,
                   IF existing.moodKey # "" THEN existing.moodKey ELSE "neutral",
                   IF existing.moodScore # 0 THEN existing.moodScore ELSE 5,
                   normalizeTasks(TasksField(existing.tasks), t)),
          IF existing.audioBase64 # "" THEN blob ELSE "",
          existing.audioBase64)

\* the sync effect's "Reset to Blank" branch
BlankDraft == Draft("", <<>>, Null, "", "")

\* the state a handler closes over when it is invoked: the props and state of
\* the render it belongs to
Closure ==
    [date |-> selectedDate, existingEntry |-> existingEntry, audioBlob |-> audioBlob,
     audioUrl |-> audioUrl, textInput |-> textInput, images |-> images,
     moodData |-> moodData]

\* an awaited call or timer: its kind ("analyze", "summarize", "timer", "save",
\* "microphone"),
\* the closure of the handler that continues after it, and whether the record
\* view that started it is still mounted
Pending(kind, closure) == [kind |-> kind, closure |-> closure, live |-> TRUE]

\* the full-screen overlays (chat, recording, delete confirmation) that cover the
\* record view's controls
NoOverlay == ~showChat /\ ~isRecording /\ ~showDeleteConfirm

InRecordView == view = "record"

InitView ==
    /\ StoreInit
    /\ lastOp = IdleOp
    /\ NormIdle
    /\ ApiIdle
    /\ ViewInit

\* Date.now() advances
Tick ==
    /\ now < MaxNow
    /\ now' = now + 1
    /\ lastOp' = IdleOp
    /\ UNCHANGED <<storeVars, normVars, modalVars, apiVars, recVars, appVars, draftVars, flagVars, chatVars, pending>>

\* App.handleSelectDate(date): the record view is mounted for date
handleSelectDate(date) ==
    /\ view = "calendar"
    /\ view' = "record"
    /\ selectedDate' = date
    /\ LET existing == activeEntry(entries, date)
           d == IF existing # Null THEN LoadExisting(existing, "", now) ELSE BlankDraft
       IN  /\ textInput' = d.textInput
           /\ images' = d.images
           /\ moodData' = d.moodData
           /\ audioBlob' = d.audioBlob
           /\ audioUrl' = d.audioUrl
    /\ isAnalyzing' = FALSE
    /\ isSaving' = FALSE
    /\ showChat' = FALSE
    /\ isChatLoading' = FALSE
    /\ chatMessages' = <<>>
    /\ isRecording' = FALSE
    /\ lastOp' = IdleOp
    /\ UNCHANGED <<storeVars, normVars, modalVars, apiVars, now, entries, recorders, timers, pending>>

\* the record view's state is gone once it is unmounted; its cleanup effect
\* clears timerRef.current, a running timer only while a recording is active
Unmounted ==
    /\ textInput' = ""
    /\ images' = <<>>
    /\ moodData' = Null
    /\ audioBlob' = ""
    /\ audioUrl' = ""
    /\ isAnalyzing' = FALSE
    /\ isSaving' = FALSE
    /\ showChat' = FALSE
    /\ isChatLoading' = FALSE
    /\ chatMessages' = <<>>
    /\ isRecording' = FALSE
    /\ recorders' = recorders
    /\ timers' = IF isRecording THEN timers - 1 ELSE timers

\* the awaited calls that still act once their record view is unmounted: a
\* save goes on to write the store and a granted microphone request starts its
\* recorder; the others only set state of the unmounted view, which has no
\* effect
Orphaned(q) ==
    LET saves == SelectSeq(q, LAMBDA p : p.kind \in {"save", "microphone"})
    IN  [k \in DOMAIN saves |-> [saves[k] EXCEPT !.live = FALSE]]

handleBackCommitsDraft ==
    /\ InRecordView /\ NoOverlay
    /\ view' = "calendar"
    /\ selectedDate' = ""
    /\ store' = saveEntry(store, JournalEntry("1", selectedDate, "", images, textInput,
                                              "", "", "neutral", 5, <<>>, now))
    /\ lastSaved' = lastSaved
    /\ entries' = getEntries(store')
    /\ Unmounted
    /\ pending' = Orphaned(pending)
    /\ lastOp' = IdleOp
    /\ UNCHANGED <<normVars, modalVars, apiVars, now>>

\* App.handleBack(): the header's back button; the record view is unmounted
handleBack ==
    /\ InRecordView /\ NoOverlay
    /\ view' = "calendar"
    /\ selectedDate' = ""
    /\ entries' = getEntries(store)
    /\ Unmounted
    /\ pending' = Orphaned(pending)
    /\ lastOp' = IdleOp
    /\ UNCHANGED <<storeVars, normVars, modalVars, apiVars, now>>

\* the text area's onChange (readOnly while analyzing or saving)
SetTextInput(text) ==
    /\ InRecordView /\ NoOverlay
    /\ ~(isAnalyzing \/ isSaving)
    /\ textInput' = text
    /\ lastOp' = IdleOp
    /\ UNCHANGED <<storeVars, normVars, modalVars, apiVars, recVars, now, appVars, images, moodData, audioBlob,
                   audioUrl, flagVars, chatVars, pending>>

\* the toolbar is rendered while neither recording nor analyzing
ToolbarShown == InRecordView /\ NoOverlay /\ ~isAnalyzing

\* handleImageUpload (the toolbar's image input)
handleImageUpload ==
    /\ ToolbarShown
    /\ Len(images) < 1
    /\ images' = Append(images, UploadedImage)
    /\ lastOp' = IdleOp
    /\ UNCHANGED <<storeVars, normVars, modalVars, apiVars, recVars, now, appVars, textInput, moodData, audioBlob,
                   audioUrl, flagVars, chatVars, pending>>

\* the remove button of an image
RemoveImage(idx) ==
    /\ InRecordView /\ NoOverlay
    /\ idx \in DOMAIN images
    /\ images' = RemoveAt(images, idx)
    /\ lastOp' = IdleOp
    /\ UNCHANGED <<storeVars, normVars, modalVars, apiVars, recVars, now, appVars, textInput, moodData, audioBlob,
                   audioUrl, flagVars, chatVars, pending>>

\* the task card is rendered when moodData is set and no analysis is running
TaskCardShown == InRecordView /\ NoOverlay /\ moodData # Null /\ ~isAnalyzing

\* the ids of the tasks the task card lists
DraftTaskIds == { TasksOf(moodData)[k].id : k \in DOMAIN TasksOf(moodData) }

\* toggleTask(id)
toggleTask(id) ==
    /\ TaskCardShown
    /\ moodData' = [moodData EXCEPT !.tasks =
          [k \in DOMAIN moodData.tasks |->
              IF moodData.tasks[k].id = id
              THEN [moodData.tasks[k] EXCEPT !.completed = ~moodData.tasks[k].completed]
              ELSE moodData.tasks[k]]]
    /\ lastOp' = IdleOp
    /\ UNCHANGED <<storeVars, normVars, modalVars, apiVars, recVars, now, appVars, textInput, images, audioBlob,
                   audioUrl, flagVars, chatVars, pending>>

\* deleteTask(id)
deleteTask(id) ==
    /\ TaskCardShown
    /\ moodData' = [moodData EXCEPT !.tasks = SelectSeq(moodData.tasks, LAMBDA t : t.id # id)]
    /\ lastOp' = IdleOp
    /\ UNCHANGED <<storeVars, normVars, modalVars, apiVars, recVars, now, appVars, textInput, images, audioBlob,
                   audioUrl, flagVars, chatVars, pending>>

\* addNewTask() with a non-blank newTaskText (the input is part of the task card)
addNewTask(text) ==
    /\ TaskCardShown
    /\ Len(moodData.tasks) < MaxTasks
    /\ moodData' = [moodData EXCEPT !.tasks =
                       Append(TasksOf(moodData), TaskItem(ManualId(now), text, FALSE))]
    /\ lastOp' = IdleOp
    /\ UNCHANGED <<storeVars, normVars, modalVars, apiVars, recVars, now, appVars, textInput, images, audioBlob,
                   audioUrl, flagVars, chatVars, pending>>

\* ---- analysis ----

\* the audio handleAnalyze sends: the fresh recording, or the stored one when
\* the player still shows it
AudioArg(c) ==
    IF c.audioBlob # "" THEN blobToBase64(c.audioBlob)
    ELSE IF c.existingEntry # Null /\ c.existingEntry.audioBase64 # ""
            /\ c.audioUrl = c.existingEntry.audioBase64
         THEN c.existingEntry.audioBase64
         ELSE ""

\* if (!audioBlob && !textInput && images.length === 0) return;
NothingToAnalyze(c) == c.audioBlob = "" /\ c.textInput = "" /\ Len(c.images) = 0

\* what handleAnalyze reads of the render c it belongs to: its guard, the
\* arguments of analyzeJournalEntry, and moodData?.tasks || []
AnalyzeClosure(c) ==
    [nothing |-> NothingToAnalyze(c), audioArg |-> AudioArg(c), textInput |-> c.textInput,
     prevTasks |-> TasksOf(c.moodData)]

\* the most tasks one analysis result carries under RecordGptResponses
MaxAiTasks == 1

\* the closure's task list leaves room for the tasks of one more analysis
RoomForAnalysis(c) == Len(TasksOf(c.moodData)) + MaxAiTasks <= MaxTasks

\* showAnalyzeButton
showAnalyzeButton ==
    (audioBlob # "" \/ Len(textInput) > 5 \/ Len(images) > 0) /\ ~isAnalyzing

\* the toolbar's analyze button: disabled when
\* (!audioBlob && !textInput) && !existingEntry
ToolbarAnalyzeEnabled ==
    ToolbarShown /\ ~((audioBlob = "" /\ textInput = "") /\ existingEntry = Null)

\* handleAnalyze() invoked from a button, up to the awaited analyzeJournalEntry
handleAnalyze ==
    /\ InRecordView /\ NoOverlay
    /\ showAnalyzeButton \/ ToolbarAnalyzeEnabled
    /\ Len(pending) < MaxPending
    /\ RoomForAnalysis(Closure)
    /\ IF NothingToAnalyze(Closure)
       THEN UNCHANGED <<isAnalyzing, pending>>
       ELSE /\ isAnalyzing' = TRUE
            /\ pending' = Append(pending, Pending("analyze", AnalyzeClosure(Closure)))
    /\ lastOp' = IdleOp
    /\ UNCHANGED <<storeVars, normVars, modalVars, apiVars, recVars, now, appVars, draftVars, isSaving, chatVars>>

\* what analyzeJournalEntry may return for the closure's input
AnalysisOutcomes(c) ==
    { analyzeJournalEntry(k, c.audioArg, c.textInput, w, g).value :
        k \in RecordLocalKeys, w \in RecordWhisperResponses, g \in RecordGptResponses }

\* analysis.tasks.map((t, i) => ({ id: `ai-${Date.now()}-${i}`, text: t, completed: false }))
AiTasks(items, t) ==
    [k \in 1..Len(items) |-> TaskItem(AiId(t, k - 1), items[k], FALSE)]

\* the moodData handleAnalyze sets for the result r: prevTasks are the tasks
\* of the moodData it closed over
MergedMoodDataDefaultScore(prevTasks, r, t) ==
    MoodData(IF r.moodEmoji # "" THEN r.moodEmoji ELSE PlaceholderEmoji,
             r.moodDescription,
             IF r.moodKey # "" THEN r.moodKey ELSE "neutral",
             5,
             prevTasks \o AiTasks(r.tasks.items, t))

MergedMoodData(prevTasks, r, t) ==
    MoodData(IF r.moodEmoji # "" THEN r.moodEmoji ELSE PlaceholderEmoji,
             r.moodDescription,
             IF r.moodKey # "" THEN r.moodKey ELSE "neutral",
             IF r.moodScore # 0 THEN r.moodScore ELSE 5,
             prevTasks \o AiTasks(r.tasks.items, t))

\* handleAnalyze() after the await with setIsAnalyzing(false) at the end of the
\* try block instead of in finally
AnalyzeCompleteWithoutFinally(i) ==
    /\ i \in DOMAIN pending
    /\ pending[i].kind = "analyze"
    /\ \E r \in AnalysisOutcomes(pending[i].closure) :
          /\ textInput' = r.transcription
          /\ moodData' = IF r.tasks.isArray
                         THEN MergedMoodData(pending[i].closure.prevTasks, r, now)
                         ELSE moodData
          /\ isAnalyzing' = IF r.tasks.isArray THEN FALSE ELSE isAnalyzing
          /\ lastOp' = [op |-> "analyzeComplete", applied |-> r.tasks.isArray,
                        result |-> r, prevTasks |-> pending[i].closure.prevTasks,
                        before |-> moodData]
    /\ pending' = RemoveAt(pending, i)
    /\ UNCHANGED <<storeVars, normVars, modalVars, apiVars, recVars, now, appVars, images, audioBlob, audioUrl,
                   isSaving, chatVars>>

\* handleAnalyze() after the await: the result r is applied; a tasks value that
\* is no array makes .map throw, and the catch block alerts
AnalyzeComplete(i) ==
    /\ i \in DOMAIN pending
    /\ pending[i].kind = "analyze"
    /\ \E r \in AnalysisOutcomes(pending[i].closure) :
          /\ textInput' = r.transcription
          /\ moodData' = IF r.tasks.isArray
                         THEN MergedMoodData(pending[i].closure.prevTasks, r, now)
                         ELSE moodData
          /\ lastOp' = [op |-> "analyzeComplete", applied |-> r.tasks.isArray,
                        result |-> r, prevTasks |-> pending[i].closure.prevTasks,
                        before |-> moodData]
    /\ isAnalyzing' = FALSE
    /\ pending' = RemoveAt(pending, i)
    /\ UNCHANGED <<storeVars, normVars, modalVars, apiVars, recVars, now, appVars, images, audioBlob, audioUrl,
                   isSaving, chatVars>>

\* ---- chat ----

\* startChat(): the toolbar's chat button
startChat ==
    /\ ToolbarShown
    /\ showChat' = TRUE
    /\ chatMessages' = IF Len(chatMessages) = 0 THEN <<ChatGreeting>> ELSE chatMessages
    /\ lastOp' = IdleOp
    /\ UNCHANGED <<storeVars, normVars, modalVars, apiVars, recVars, now, appVars, draftVars, flagVars,
                   isChatLoading, pending>>

\* the chat overlay's close button
CloseChat ==
    /\ InRecordView /\ showChat
    /\ showChat' = FALSE
    /\ lastOp' = IdleOp
    /\ UNCHANGED <<storeVars, normVars, modalVars, apiVars, recVars, now, appVars, draftVars, flagVars,
                   isChatLoading, chatMessages, pending>>

\* endChatAndSummarize() up to the awaited summarizeChatSession
endChatAndSummarize ==
    /\ InRecordView /\ showChat
    /\ Len(pending) < MaxPending
    /\ RoomForAnalysis(Closure)
    /\ isChatLoading' = TRUE
    /\ pending' = Append(pending, Pending("summarize", AnalyzeClosure(Closure)))
    /\ lastOp' = IdleOp
    /\ UNCHANGED <<storeVars, normVars, modalVars, apiVars, recVars, now, appVars, draftVars, flagVars,
                   showChat, chatMessages>>

\* endChatAndSummarize() after the await: the summary becomes the text and
\* setTimeout(() => handleAnalyze(), 100) is armed with the handler's closure
SummarizeComplete(i) ==
    /\ i \in DOMAIN pending
    /\ pending[i].kind = "summarize"
    /\ \E k \in RecordLocalKeys, g \in RecordSummaryResponses :
          /\ textInput' = summarizeChatSession(k, g).value
          /\ pending' = [pending EXCEPT ![i] =
                            [kind |-> "timer", closure |-> pending[i].closure,
                             live |-> pending[i].live,
                             summary |-> summarizeChatSession(k, g).value]]
    /\ showChat' = FALSE
    /\ isChatLoading' = FALSE
    /\ lastOp' = IdleOp
    /\ UNCHANGED <<storeVars, normVars, modalVars, apiVars, recVars, now, appVars, images, moodData, audioBlob,
                   audioUrl, flagVars, chatMessages>>

\* the timer fires: handleAnalyze() of the closure runs up to its await
TimerFires(i) ==
    /\ i \in DOMAIN pending
    /\ pending[i].kind = "timer"
    /\ IF pending[i].closure.nothing
       THEN /\ pending' = RemoveAt(pending, i)
            /\ UNCHANGED isAnalyzing
       ELSE /\ isAnalyzing' = TRUE
            /\ pending' = [pending EXCEPT ![i] =
                              [kind |-> "analyze", closure |-> pending[i].closure,
                               live |-> pending[i].live]]
    /\ lastOp' = [op |-> "timerFires", started |-> ~pending[i].closure.nothing,
                  input |-> pending[i].closure.textInput, summary |-> pending[i].summary]
    /\ UNCHANGED <<storeVars, normVars, modalVars, apiVars, recVars, now, appVars, draftVars, isSaving, chatVars>>

\* ---- recording ----

\* the blob a recording session produces
RecordedBlob == "blob-1"

\* the most recorders the model lets exist at once
MaxRecorders == 2

\* the getUserMedia requests that have not settled
MicrophoneRequests == { i \in DOMAIN pending : pending[i].kind = "microphone" }

\* startRecording() up to the awaited getUserMedia: the toolbar's microphone
\* button, shown while no audio is attached and no recording overlay is up
startRecording ==
    /\ ToolbarShown
    /\ audioUrl = ""
    /\ Len(pending) < MaxPending
    /\ recorders + Cardinality(MicrophoneRequests) < MaxRecorders
    /\ pending' = Append(pending, Pending("microphone", Null))
    /\ lastOp' = IdleOp
    /\ UNCHANGED <<storeVars, normVars, modalVars, apiVars, now, appVars, draftVars, flagVars, chatVars,
                   recVars>>

\* startRecording() after getUserMedia resolved: a new MediaRecorder replaces
\* mediaRecorderRef.current and is started, and a new interval replaces
\* timerRef.current
MicrophoneGranted(i) ==
    /\ i \in DOMAIN pending
    /\ pending[i].kind = "microphone"
    /\ recorders' = recorders + 1
    /\ timers' = timers + 1
    /\ isRecording' = IF pending[i].live THEN TRUE ELSE isRecording
    /\ pending' = RemoveAt(pending, i)
    /\ lastOp' = [op |-> "startRecording", was |-> isRecording]
    /\ UNCHANGED <<storeVars, normVars, modalVars, apiVars, now, appVars, draftVars, flagVars, chatVars>>

\* startRecording() after getUserMedia rejected: the catch block alerts
MicrophoneDenied(i) ==
    /\ i \in DOMAIN pending
    /\ pending[i].kind = "microphone"
    /\ pending' = RemoveAt(pending, i)
    /\ lastOp' = IdleOp
    /\ UNCHANGED <<storeVars, normVars, modalVars, apiVars, now, appVars, draftVars, flagVars, chatVars,
                   recVars>>

\* stopRecording() and the onstop of mediaRecorderRef.current, the recorder
\* started last: it clears timerRef.current, the interval started with it
stopRecording ==
    /\ InRecordView /\ isRecording
    /\ isRecording' = FALSE
    /\ recorders' = recorders - 1
    /\ timers' = timers - 1
    /\ audioBlob' = RecordedBlob
    /\ audioUrl' = createObjectURL(RecordedBlob)
    /\ lastOp' = IdleOp
    /\ UNCHANGED <<storeVars, normVars, modalVars, apiVars, now, appVars, textInput, images, moodData,
                   flagVars, chatVars, pending>>

\* the audio player's remove button
ClearAudio ==
    /\ InRecordView /\ NoOverlay
    /\ audioUrl # ""
    /\ audioBlob' = ""
    /\ audioUrl' = ""
    /\ lastOp' = IdleOp
    /\ UNCHANGED <<storeVars, normVars, modalVars, apiVars, recVars, now, appVars, textInput, images,
                   moodData, flagVars, chatVars, pending>>

\* ---- save ----

\* the audio handleSave stores when there is no fresh recording
KeptAudio(c) ==
    IF c.audioUrl # "" /\ c.existingEntry # Null /\ c.existingEntry.audioBase64 # ""
       /\ c.audioUrl = c.existingEntry.audioBase64
    THEN c.existingEntry.audioBase64
    ELSE ""

\* the description handleSave stores for a draft that was never analyzed
NotAnalyzed == "not analyzed"

\* what handleSave reads of the render c it belongs to
SaveClosure(c) ==
    [id |-> IF c.existingEntry # Null THEN c.existingEntry.id ELSE "", date |-> c.date,
     audioBlob |-> c.audioBlob, keptAudio |-> KeptAudio(c), images |-> c.images,
     textInput |-> c.textInput, moodData |-> c.moodData]

\* the entry handleSave builds from its closure
NewEntry(c, audioBase64, t) ==
    JournalEntry(IF c.id # "" THEN c.id ELSE ToString(t),
                 c.date, audioBase64, c.images, c.textInput,
                 IF c.moodData # Null /\ c.moodData.emoji # ""
                 THEN c.moodData.emoji ELSE PlaceholderEmoji,
                 IF c.moodData # Null /\ c.moodData.desc # ""
                 THEN c.moodData.desc ELSE NotAnalyzed,
                 IF c.moodData # Null /\ c.moodData.key # ""
                 THEN c.moodData.key ELSE "neutral",
                 IF c.moodData # Null /\ c.moodData.score # 0
                 THEN c.moodData.score ELSE 5,
                 TasksOf(c.moodData), t)

\* the sync effect after App's loadData(): it runs when existingEntry changed,
\* and a reloaded entry is always a new object
SyncEffect(before, after) ==
    IF after # Null
    THEN LET d == LoadExisting(after, audioBlob, now)
         IN  /\ textInput' = d.textInput
             /\ images' = d.images
             /\ moodData' = d.moodData
             /\ audioBlob' = d.audioBlob
             /\ audioUrl' = d.audioUrl
             /\ UNCHANGED <<showChat, chatMessages>>
    ELSE IF before # Null
    THEN /\ textInput' = ""
         /\ images' = <<>>
         /\ moodData' = Null
         /\ audioBlob' = ""
         /\ audioUrl' = ""
         /\ showChat' = FALSE
         /\ chatMessages' = <<>>
    ELSE UNCHANGED <<draftVars, showChat, chatMessages>>

\* saveEntry(newEntry); onSave(): the write, then App.handleSave's loadData()
\* and, while the record view is mounted, its sync effect
Commit(entry, live) ==
    /\ store' = saveEntry(store, entry)
    /\ lastSaved' = IF SetItemThrows(SaveCandidate(store, entry))
                    THEN lastSaved
                    ELSE [lastSaved EXCEPT ![entry.date] = entry]
    /\ entries' = IF saveEntryRaises(store, entry) THEN entries ELSE getEntries(store')
    /\ lastOp' = [op |-> "handleSave", threw |-> SetItemThrows(SaveCandidate(store, entry)),
                  had |-> (getEntryByDate(store, entry.date) # Null),
                  onSave |-> ~saveEntryRaises(store, entry)]
    /\ IF live /\ ~saveEntryRaises(store, entry)
       THEN SyncEffect(activeEntry(entries, selectedDate),
                       activeEntry(entries', selectedDate))
       ELSE UNCHANGED <<draftVars, showChat, chatMessages>>

\* handleSave(): the save button (disabled while saving or analyzing); without
\* a fresh recording nothing is awaited, with one blobToBase64 is
handleSave ==
    /\ InRecordView /\ NoOverlay
    /\ ~(isSaving \/ isAnalyzing)
    /\ IF audioBlob = ""
       THEN /\ Commit(NewEntry(SaveClosure(Closure), KeptAudio(Closure), now), TRUE)
            /\ UNCHANGED <<isSaving, pending>>
       ELSE /\ Len(pending) < MaxPending
            /\ isSaving' = TRUE
            /\ pending' = Append(pending, Pending("save", SaveClosure(Closure)))
            /\ lastOp' = IdleOp
            /\ UNCHANGED <<storeVars, entries, draftVars, showChat, chatMessages>>
    /\ UNCHANGED <<normVars, modalVars, apiVars, recVars, now, view, selectedDate, isAnalyzing,
                   isChatLoading>>

\* handleSave() after the awaited blobToBase64
SaveComplete(i) ==
    /\ i \in DOMAIN pending
    /\ pending[i].kind = "save"
    /\ Commit(NewEntry(pending[i].closure, blobToBase64(pending[i].closure.audioBlob), now),
              pending[i].live)
    /\ isSaving' = IF pending[i].live THEN FALSE ELSE isSaving
    /\ pending' = RemoveAt(pending, i)
    /\ UNCHANGED <<normVars, modalVars, apiVars, recVars, now, view, selectedDate, isAnalyzing,
                   isChatLoading>>

\* ---- delete ----

\* handleDeleteClick(): the header's delete button, rendered for an existing entry
handleDeleteClick ==
    /\ InRecordView /\ NoOverlay
    /\ existingEntry # Null
    /\ showDeleteConfirm' = TRUE
    /\ lastOp' = IdleOp
    /\ UNCHANGED <<storeVars, normVars, apiVars, recVars, now, appVars, draftVars, flagVars,
                   chatVars, editingTask, editText, pending>>

\* the confirmation modal's cancel button
CancelDelete ==
    /\ InRecordView /\ showDeleteConfirm
    /\ showDeleteConfirm' = FALSE
    /\ lastOp' = [op |-> "cancelDelete", store |-> store, draft |-> Closure]
    /\ UNCHANGED <<storeVars, normVars, apiVars, recVars, now, appVars, draftVars, flagVars,
                   chatVars, editingTask, editText, pending>>

\* confirmDeleteEntry() with an App.handleDelete that does not call loadData()
confirmDeleteEntryWithoutReload ==
    /\ InRecordView /\ showDeleteConfirm
    /\ store' = deleteEntry(store, selectedDate)
    /\ lastSaved' = [lastSaved EXCEPT ![selectedDate] = Null]
    /\ showDeleteConfirm' = FALSE
    /\ lastOp' = [op |-> "confirmDeleteEntry", date |-> selectedDate,
                  deleted |-> getEntryByDate(store, selectedDate)]
    /\ UNCHANGED <<normVars, apiVars, recVars, now, appVars, draftVars, flagVars,
                   chatVars, editingTask, editText, pending>>

\* confirmDeleteEntry(): onDelete() is App.handleDelete(selectedDate), that is
\* deleteEntry(date) and loadData(), after which the sync effect runs
confirmDeleteEntry ==
    /\ InRecordView /\ showDeleteConfirm
    /\ store' = deleteEntry(store, selectedDate)
    /\ lastSaved' = [lastSaved EXCEPT ![selectedDate] = Null]
    /\ entries' = getEntries(store')
    /\ SyncEffect(activeEntry(entries, selectedDate), activeEntry(entries', selectedDate))
    /\ showDeleteConfirm' = FALSE
    /\ lastOp' = [op |-> "confirmDeleteEntry", date |-> selectedDate,
                  deleted |-> getEntryByDate(store, selectedDate)]
    /\ UNCHANGED <<normVars, apiVars, recVars, now, view, selectedDate, flagVars,
                   isChatLoading, editingTask, editText, pending>>

\* the record view's analysis pipeline: the draft, the analyze buttons and the
\* chat path, with nothing persisted
NextAnalysis ==
    \/ Tick
    \/ \E d \in RecordDates : handleSelectDate(d)
    \/ handleBack
    \/ \E text \in TypedTexts : SetTextInput(text)
    \/ \E id \in DraftTaskIds : deleteTask(id)
    \/ \E text \in NewTaskTexts : addNewTask(text)
    \/ handleAnalyze
    \/ \E i \in 1..MaxPending : AnalyzeComplete(i)
    \/ startChat
    \/ CloseChat
    \/ endChatAndSummarize
    \/ \E i \in 1..MaxPending : SummarizeComplete(i)
    \/ \E i \in 1..MaxPending : TimerFires(i)

SpecAnalysis == InitView /\ [][NextAnalysis]_vars

\* the record view's persistence: the draft with its images, one analysis at a
\* time, and the save button on a draft without a fresh recording
NextSave ==
    \/ Tick
    \/ \E d \in RecordDates : handleSelectDate(d)
    \/ handleBack
    \/ \E text \in TypedTexts : SetTextInput(text)
    \/ handleImageUpload
    \/ \E idx \in 1..1 : RemoveImage(idx)
    \/ \E id \in DraftTaskIds : toggleTask(id)
    \/ handleAnalyze
    \/ \E i \in 1..MaxPending : AnalyzeComplete(i)
    \/ handleSave

SpecSave == InitView /\ [][NextSave]_vars

\* the record view's draft: every edit of text, images and tasks, analysis
\* runs, the save button and the back button, within one clock tick
NextDraft ==
    \/ \E d \in RecordDates : handleSelectDate(d)
    \/ handleBack
    \/ \E text \in TypedTexts : SetTextInput(text)
    \/ handleImageUpload
    \/ \E idx \in 1..1 : RemoveImage(idx)
    \/ \E id \in DraftTaskIds : toggleTask(id)
    \/ \E id \in DraftTaskIds : deleteTask(id)
    \/ \E text \in NewTaskTexts : addNewTask(text)
    \/ handleAnalyze
    \/ \E i \in 1..MaxPending : AnalyzeComplete(i)
    \/ handleSave

SpecDraft == InitView /\ [][NextDraft]_vars

\* the record view's saves against the storage capacity: two dates, drafts with
\* text and an image
NextQuota ==
    \/ Tick
    \/ \E d \in Dates : handleSelectDate(d)
    \/ handleBack
    \/ \E text \in TypedTexts : SetTextInput(text)
    \/ handleImageUpload
    \/ \E idx \in 1..1 : RemoveImage(idx)
    \/ handleSave

SpecQuota == InitView /\ [][NextQuota]_vars

\* the record view's audio: recording, and the save that awaits blobToBase64
NextAudio ==
    \/ Tick
    \/ \E d \in RecordDates : handleSelectDate(d)
    \/ handleBack
    \/ \E text \in TypedTexts : SetTextInput(text)
    \/ startRecording
    \/ \E i \in 1..MaxPending : MicrophoneGranted(i)
    \/ \E i \in 1..MaxPending : MicrophoneDenied(i)
    \/ stopRecording
    \/ ClearAudio
    \/ handleSave
    \/ \E i \in 1..MaxPending : SaveComplete(i)

SpecAudio == InitView /\ [][NextAudio]_vars

\* handleSave() when the awaited blobToBase64 rejects (reader.onerror): the
\* catch block alerts, nothing is written, and finally clears isSaving
SaveRejected(i) ==
    /\ i \in DOMAIN pending
    /\ pending[i].kind = "save"
    /\ isSaving' = IF pending[i].live THEN FALSE ELSE isSaving
    /\ pending' = RemoveAt(pending, i)
    /\ lastOp' = [op |-> "saveRejected", live |-> pending[i].live]
    /\ UNCHANGED <<storeVars, normVars, modalVars, apiVars, recVars, now, appVars, draftVars,
                   isAnalyzing, chatVars>>

\* the awaited analyzeJournalEntry settles
AnalysisSettles == \E i \in 1..MaxPending : AnalyzeComplete(i)

\* the awaited blobToBase64 settles: it resolves or rejects
SaveSettles == \E i \in 1..MaxPending : SaveComplete(i) \/ SaveRejected(i)

\* a record view that holds a finished recording: the state stopRecording
\* leaves on a date with no entry
InitRecorded ==
    /\ StoreInit
    /\ lastOp = IdleOp
    /\ NormIdle
    /\ ApiIdle
    /\ now = 1
    /\ view = "record"
    /\ selectedDate \in RecordDates
    /\ entries = <<>>
    /\ textInput = ""
    /\ images = <<>>
    /\ moodData = Null
    /\ audioBlob = RecordedBlob
    /\ audioUrl = createObjectURL(RecordedBlob)
    /\ isAnalyzing = FALSE
    /\ isSaving = FALSE
    /\ showChat = FALSE
    /\ isChatLoading = FALSE
    /\ chatMessages = <<>>
    /\ isRecording = FALSE
    /\ recorders = 0
    /\ timers = 0
    /\ editingTask = Null
    /\ editText = ""
    /\ showDeleteConfirm = FALSE
    /\ pending = <<>>

\* the record view's in-progress flags: analyses and saves of a recorded
\* draft, and the views they outlive, within one clock tick
NextSettle ==
    \/ \E d \in RecordDates : handleSelectDate(d)
    \/ handleBack
    \/ ClearAudio
    \/ handleAnalyze
    \/ \E i \in 1..MaxPending : AnalyzeComplete(i)
    \/ handleSave
    \/ \E i \in 1..MaxPending : SaveComplete(i)
    \/ \E i \in 1..MaxPending : SaveRejected(i)

\* every awaited promise settles: the event loop runs the continuation of a
\* settled fetch or FileReader
SpecSettle ==
    /\ InitRecorded
    /\ [][NextSettle]_vars
    /\ WF_vars(AnalysisSettles)
    /\ WF_vars(SaveSettles)

\* the same steps with no promise obliged to settle
SpecSettleUnfair == InitRecorded /\ [][NextSettle]_vars

(***************************************************************************)
(* Calendar view task editing: CalendarView.handleTaskClick, saveTaskChanges *)
(***************************************************************************)

\* entries stored by earlier sessions: structured tasks, legacy string tasks
\* and an entry without tasks
CalendarEntries ==
    { JournalEntry("1700000000000", "2024-01-05", "", <<>>, "a long day at work",
                   "smile", "quiet afternoon", "calm", 6,
                   <<TaskItem("ai-1-0", "call mom", FALSE), TaskItem("manual-2", "rest", TRUE)>>, 1),
      JournalEntry("1700000000000", "2024-01-05", "", <<>>, "old entry",
                   "memo", "", "neutral", 5,
                   <<LegacyTask("buy milk"), LegacyTask("call mom")>>, 1),
      JournalEntry("1700000086400", "2024-01-06", "", <<"data:image/png;base64,AA==">>,
                   "went for a walk", "smile", "", "happy", 8,
                   <<TaskItem("ai-1-0", "buy milk", FALSE)>>, 1),
      JournalEntry("1700000086400", "2024-01-06", "", <<>>, "", "memo", "", "neutral", 5,
                   <<>>, 1) }

\* the stores the calendar opens on: at most one entry per date
CalendarStores ==
    { q \in SeqsUpTo(CalendarEntries, 2) :
        \A i, j \in DOMAIN q : q[i].date = q[j].date => i = j }

\* the texts typed into the task edit modal
EditTexts == {"", "call dad"}

InitCalendar ==
    /\ store \in CalendarStores
    /\ lastSaved = [d \in Dates |-> getEntryByDate(store, d)]
    /\ lastOp = IdleOp
    /\ NormIdle
    /\ ApiIdle
    /\ now = 1
    /\ view = "calendar"
    /\ selectedDate = ""
    /\ entries = getEntries(store)
    /\ textInput = ""
    /\ images = <<>>
    /\ moodData = Null
    /\ audioBlob = ""
    /\ audioUrl = ""
    /\ isAnalyzing = FALSE
    /\ isSaving = FALSE
    /\ showChat = FALSE
    /\ isChatLoading = FALSE
    /\ chatMessages = <<>>
    /\ isRecording = FALSE
    /\ recorders = 0
    /\ timers = 0
    /\ editingTask = Null
    /\ editText = ""
    /\ showDeleteConfirm = FALSE
    /\ pending = <<>>

\* the tasks the calendar lists for an entry
EntryTasks(entry) == getTasksForEntry(entry.date, TasksField(entry.tasks))

\* handleTaskClick(entryDate, task) on a task the calendar lists
handleTaskClick(entryDate, k) ==
    /\ view = "calendar" /\ editingTask = Null
    /\ getEntryByDate(entries, entryDate) # Null
    /\ k \in DOMAIN EntryTasks(getEntryByDate(entries, entryDate))
    /\ LET task == EntryTasks(getEntryByDate(entries, entryDate))[k]
       IN  /\ editingTask' = [entryDate |-> entryDate, task |-> task]
           /\ editText' = task.text
    /\ lastOp' = IdleOp
    /\ UNCHANGED <<storeVars, normVars, apiVars, now, appVars, draftVars, flagVars, chatVars,
                   recVars, showDeleteConfirm, pending>>

\* the edit modal's textarea onChange
SetEditText(text) ==
    /\ view = "calendar" /\ editingTask # Null
    /\ editText' = text
    /\ lastOp' = IdleOp
    /\ UNCHANGED <<storeVars, normVars, apiVars, now, appVars, draftVars, flagVars, chatVars,
                   recVars, editingTask, showDeleteConfirm, pending>>

\* the edit modal's close button
CloseEdit ==
    /\ view = "calendar" /\ editingTask # Null
    /\ editingTask' = Null
    /\ lastOp' = IdleOp
    /\ UNCHANGED <<storeVars, normVars, apiVars, now, appVars, draftVars, flagVars, chatVars,
                   recVars, editText, showDeleteConfirm, pending>>

EditedTasksByPosition(tasks, action, edited, text) ==
    CASE action = "delete" -> SelectSeq(tasks, LAMBDA t : t # edited)
      [] action = "update" ->
            [k \in DOMAIN tasks |-> [tasks[k] EXCEPT !.text = text]]
      [] OTHER ->
            [k \in DOMAIN tasks |->
                IF tasks[k].id = edited.id
                THEN [tasks[k] EXCEPT !.completed = ~edited.completed]
                ELSE tasks[k]]

\* newTasks of saveTaskChanges(action) for the edited task and editText
EditedTasks(tasks, action, edited, text) ==
    CASE action = "delete" -> SelectSeq(tasks, LAMBDA t : t.id # edited.id)
      [] action = "update" ->
            [k \in DOMAIN tasks |->
                IF tasks[k].id = edited.id THEN [tasks[k] EXCEPT !.text = text]
                ELSE tasks[k]]
      [] OTHER ->
            [k \in DOMAIN tasks |->
                IF tasks[k].id = edited.id
                THEN [tasks[k] EXCEPT !.completed = ~tasks[k].completed]
                ELSE tasks[k]]

\* saveTaskChanges(action): saveEntry(updatedEntry), onDataUpdate() and
\* setEditingTask(null)
saveTaskChanges(action) ==
    /\ view = "calendar" /\ editingTask # Null
    /\ LET entry == getEntryByDate(entries, editingTask.entryDate)
       IN  IF entry = Null
           THEN /\ lastOp' = IdleOp
                /\ UNCHANGED <<storeVars, entries, editingTask>>
           ELSE LET updatedEntry ==
                        [entry EXCEPT !.tasks =
                            EditedTasks(EntryTasks(entry), action, editingTask.task, editText)]
                IN  /\ store' = saveEntry(store, updatedEntry)
                    /\ lastSaved' = IF SetItemThrows(SaveCandidate(store, updatedEntry))
                                    THEN lastSaved
                                    ELSE [lastSaved EXCEPT ![updatedEntry.date] = updatedEntry]
                    /\ entries' = getEntries(store')
                    /\ editingTask' = Null
                    /\ lastOp' = [op |-> "saveTaskChanges", action |-> action,
                                  date |-> entry.date, task |-> editingTask.task,
                                  text |-> editText,
                                  threw |-> SetItemThrows(SaveCandidate(store, updatedEntry))]
    /\ UNCHANGED <<normVars, apiVars, now, view, selectedDate, draftVars, flagVars, chatVars,
                   recVars, editText, showDeleteConfirm, pending>>

TaskActions == {"update", "delete", "toggle"}

NextCalendar ==
    \/ \E d \in Dates, k \in 1..MaxTasks : handleTaskClick(d, k)
    \/ \E text \in EditTexts : SetEditText(text)
    \/ CloseEdit
    \/ \E action \in TaskActions : saveTaskChanges(action)

SpecCalendar == InitCalendar /\ [][NextCalendar]_vars

\* the other tasks of a list, in order: those whose id is not the given id
OtherTasks(tasks, id) == SelectSeq(tasks, LAMBDA t : t.id # id)

\* the tasks of a list with the given id, in order
SameIdTasks(tasks, id) == SelectSeq(tasks, LAMBDA t : t.id = id)

C27_LegacyWitness ==
    /\ lastOp.op = "saveTaskChanges" /\ lastOp.action = "update"
    /\ lastOp.task.id = LegacyId(lastOp.date, 1)
    /\ getEntryByDate(store, lastOp.date).tasks[2].text = "call dad"

(***************************************************************************)
(* Claims about the record view                                            *)
(***************************************************************************)

\* the last step was handleAnalyze applying the result it awaited (setMoodData ran)
AnalysisApplied == lastOp.op = "analyzeComplete" /\ lastOp.applied

\* C2: when an analysis result with n task strings is applied to a draft whose
\* task list is T, the draft's new task list is T followed by the n new tasks
\* (length len(T) + n, every element of T unchanged and in order).
C2_MergeAppendsToDraft ==
    AnalysisApplied =>
        TasksOf(moodData) =
            TasksOf(lastOp.before) \o AiTasks(lastOp.result.tasks.items, now)

\* what the handler does instead: the new list is the task list the handler
\* closed over when it was invoked, followed by the n new tasks
C2_MergeAppendsToCaptured ==
    AnalysisApplied =>
        TasksOf(moodData) = lastOp.prevTasks \o AiTasks(lastOp.result.tasks.items, now)

\* the tasks of md that an analysis run appended
AiAppended(md) ==
    { TasksOf(md)[k] : k \in { j \in DOMAIN TasksOf(md) : StartsWith(TasksOf(md)[j].id, "ai-") } }

\* C3: once an analysis run has appended its tasks to the draft, no later
\* analysis completion removes or replaces them.
C3_CompletionKeepsAnalysisTasks ==
    lastOp.op = "analyzeComplete" =>
        \A t \in AiAppended(lastOp.before) :
            \E k \in DOMAIN TasksOf(moodData) : TasksOf(moodData)[k] = t

\* C4: applying an analysis result replaces the draft's mood emoji, description,
\* key and score with the values of that result.
C4_MoodReplacedWholesale ==
    AnalysisApplied =>
        /\ moodData.emoji = lastOp.result.moodEmoji
        /\ moodData.desc = lastOp.result.moodDescription
        /\ moodData.key = lastOp.result.moodKey
        /\ moodData.score = lastOp.result.moodScore

\* a result was applied to a draft whose four mood fields all held other values
C4_Witness ==
    /\ AnalysisApplied
    /\ lastOp.before # Null
    /\ lastOp.before.emoji # lastOp.result.moodEmoji
    /\ lastOp.before.desc # lastOp.result.moodDescription
    /\ lastOp.before.key # lastOp.result.moodKey
    /\ lastOp.before.score # lastOp.result.moodScore
    /\ moodData.key = lastOp.result.moodKey
    /\ moodData.score = lastOp.result.moodScore

ScoreAndKeyInRange(score, key) == score \in 1..10 /\ key \in MoodKeys

\* C10: every AnalysisResult analyzeJournalEntry returns to the record view,
\* and every entry the record view commits to the store, has moodScore in
\* 1..10 and moodKey in the fixed enumeration.
C10_ScoreAndKeyInRange ==
    /\ lastOp.op = "analyzeComplete" =>
          ScoreAndKeyInRange(lastOp.result.moodScore, lastOp.result.moodKey)
    /\ \A k \in DOMAIN store : ScoreAndKeyInRange(store[k].moodScore, store[k].moodKey)

\* the stored half of C10 on its own
C10_StoredInRange ==
    \A k \in DOMAIN store : ScoreAndKeyInRange(store[k].moodScore, store[k].moodKey)

\* C14: a persistence failure inside saveEntry is surfaced to the caller, which
\* does not run its success path (onSave) after a failed write.
C14_FailedSaveSkipsSuccessPath ==
    (lastOp.op = "handleSave" /\ lastOp.threw) => ~lastOp.onSave

\* the draft fields the user edits
DraftFields == <<textInput, images, moodData>>

\* C15: after a save from the record view fails for lack of storage capacity
\* the draft (text, images, mood fields, task list) is the same as just before
\* the save, for a new date and for a date with a stored entry alike.
C15_FailedSaveKeepsDraft ==
    [][(lastOp'.op = "handleSave" /\ lastOp'.threw) => DraftFields' = DraftFields]_vars

\* C15 for a new date only: the draft is the same after the failed save
C15_FailedSaveKeepsNewDraft ==
    [][(lastOp'.op = "handleSave" /\ lastOp'.threw /\ ~lastOp'.had)
           => DraftFields' = DraftFields]_vars

\* C16: task toggle, delete and add, text and image edits and analysis runs
\* change only the draft: the persisted store changes at no step other than a
\* handleSave, and so going back without saving leaves it as it was.
C16_OnlySaveWritesStore ==
    [][lastOp'.op # "handleSave" => getEntries(store') = getEntries(store)]_vars

\* an analysis has just been applied to the draft of a stored entry, and the
\* draft's text, images and tasks all differ from the stored entry's
C16_Witness ==
    /\ lastOp.op = "analyzeComplete" /\ lastOp.applied
    /\ existingEntry # Null
    /\ getEntryByDate(store, selectedDate) = existingEntry
    /\ textInput # existingEntry.transcription
    /\ images # existingEntry.images
    /\ TasksOf(moodData) # existingEntry.tasks

\* the analyzeJournalEntry calls of the record view that have not settled
OutstandingAnalyses == { i \in DOMAIN pending : pending[i].kind = "analyze" /\ pending[i].live }

\* C17: at any time at most one analyzeJournalEntry call started from the
\* record view is outstanding.
C17_OneAnalysisOutstanding == Cardinality(OutstandingAnalyses) <= 1

\* C17, the buttons alone: a call started while isAnalyzing is set is started
\* by the chat path's timer, never by an analyze button
C17_ButtonsStartOneAnalysis ==
    [][(isAnalyzing /\ Cardinality(OutstandingAnalyses') > Cardinality(OutstandingAnalyses))
          => \E i \in DOMAIN pending : pending[i].kind = "timer"]_vars

\* C18: audio capture is a single exclusive session: at most one
\* MediaRecorder is recording and at most one duration timer is running, and a
\* startRecording settles into a recording only when none is active.
C18_OneRecordingSession ==
    /\ recorders <= 1
    /\ timers <= 1
    /\ lastOp.op = "startRecording" => ~lastOp.was

\* C19: when a chat session is ended with endChatAndSummarize, the analysis
\* call that follows always takes place and is made with the summary text
\* returned by summarizeChatSession as its text input.
C19_AnalysisUsesSummary ==
    lastOp.op = "timerFires" => lastOp.started /\ lastOp.input = lastOp.summary

\* C19, the call alone: the analysis after a chat always takes place
C19_AnalysisTakesPlace ==
    lastOp.op = "timerFires" => lastOp.started

DistinctIds(tasks) ==
    \A i, j \in DOMAIN tasks : tasks[i].id = tasks[j].id => i = j

\* C22: within one entry's task list, the record view's draft and every
\* stored entry, task ids are pairwise distinct in every reachable state.
C22_TaskIdsDistinct ==
    /\ DistinctIds(TasksOf(moodData))
    /\ \A k \in DOMAIN store : DistinctIds(store[k].tasks)

\* C22 for the stored entries alone
C22_StoredTaskIdsDistinct ==
    \A k \in DOMAIN store : DistinctIds(store[k].tasks)

\* C26: an entry's id is assigned when the entry for a date is first created
\* and is preserved by every later commit for that date.
C26_IdPreserved ==
    [][\A d \in Dates :
          (getEntryByDate(store, d) # Null /\ getEntryByDate(store', d) # Null)
              => getEntryByDate(store', d).id = getEntryByDate(store, d).id]_vars

\* C28: every handleAnalyze or handleSave invocation that sets its
\* in-progress flag (isAnalyzing, isSaving) eventually clears it once the
\* awaited call settles, whether the operation succeeds or fails, so the record
\* view never stays read-only forever.
C28_FlagsEventuallyCleared ==
    /\ isAnalyzing ~> ~isAnalyzing
    /\ isSaving ~> ~isSaving

\* a rejected blobToBase64 has cleared isSaving of the view that awaited it
C28_Witness ==
    /\ lastOp.op = "saveRejected" /\ lastOp.live
    /\ InRecordView /\ ~isSaving

\* an analysis that threw on a malformed result has cleared isAnalyzing
C28_FailedAnalysisWitness ==
    /\ lastOp.op = "analyzeComplete" /\ ~lastOp.applied
    /\ InRecordView /\ ~isAnalyzing

\* the record view's delete button against saves and analyses of a recorded
\* draft, within one clock tick
NextDelete ==
    \/ \E d \in RecordDates : handleSelectDate(d)
    \/ handleBack
    \/ \E text \in TypedTexts : SetTextInput(text)
    \/ startRecording
    \/ \E i \in 1..MaxPending : MicrophoneGranted(i)
    \/ stopRecording
    \/ handleSave
    \/ \E i \in 1..MaxPending : SaveComplete(i)
    \/ handleDeleteClick
    \/ CancelDelete
    \/ confirmDeleteEntry

SpecDelete == InitView /\ [][NextDelete]_vars

\* the entry e carries none of the text, images, audio or tasks of the entry old
NoContentOf(e, old) ==
    /\ old.transcription # "" => e.transcription # old.transcription
    /\ old.images # <<>> => e.images # old.images
    /\ old.audioBase64 # "" => e.audioBase64 # old.audioBase64
    /\ old.tasks # <<>> => e.tasks # old.tasks

\* right after a confirmed delete the store has no entry for the selected date
\* and the draft is blank
C29_DeleteClearsStoreAndDraft ==
    lastOp.op = "confirmDeleteEntry" =>
        /\ getEntryByDate(store, lastOp.date) = Null
        /\ selectedDate = lastOp.date
        /\ existingEntry = Null
        /\ Draft(textInput, images, moodData, audioBlob, audioUrl) = BlankDraft

\* cancelling the confirmation leaves store and draft as they were
C29_CancelChangesNothing ==
    lastOp.op = "cancelDelete" => store = lastOp.store /\ Closure = lastOp.draft

\* the step after a confirmed delete stores none of the deleted entry's content
C29_NextSaveStoresNoDeletedContent ==
    [][lastOp.op = "confirmDeleteEntry" =>
          \/ getEntryByDate(store', lastOp.date) = Null
          \/ NoContentOf(getEntryByDate(store', lastOp.date), lastOp.deleted)]_vars

\* C29: after an entry is deleted through the record view's confirm step, the
\* store has no entry for the selected date and the draft (text, images, mood
\* fields, task list, audio) is reset to blank, so a later save for that date
\* stores none of the deleted entry's content; cancelling the confirmation
\* leaves store and draft unchanged.
C29_DeleteThroughConfirm ==
    /\ []C29_DeleteClearsStoreAndDraft
    /\ []C29_CancelChangesNothing
    /\ C29_NextSaveStoresNoDeletedContent

\* a confirmed delete removed an entry that carried text and audio
C29_DeleteWitness ==
    /\ lastOp.op = "confirmDeleteEntry"
    /\ lastOp.deleted.transcription # "" /\ lastOp.deleted.audioBase64 # ""
    /\ store = <<>>

\* the confirmation was cancelled over an edited draft
C29_CancelWitness ==
    /\ lastOp.op = "cancelDelete"
    /\ store # <<>> /\ audioBlob # ""

\* C30: after any sequence of select-date, back, save and delete actions, view
\* is 'record' exactly when selectedDate is non-empty, and the entry handed to
\* the record view is the stored entry whose date equals selectedDate (absent
\* if there is none).
C30_ViewMatchesSelection ==
    /\ view \in {"calendar", "record"}
    /\ (view = "record") <=> (selectedDate # "")
    /\ view = "record" => existingEntry = getEntryByDate(getEntries(store), selectedDate)

\* the record view shows the stored entry of the selected date after a save
C30_Witness ==
    /\ view = "record" /\ selectedDate = "2024-01-05"
    /\ lastOp.op = "handleSave"
    /\ existingEntry # Null /\ existingEntry.date = selectedDate

\* the record view has no entry after the selected date's entry was deleted
C30_DeletedWitness ==
    /\ view = "record" /\ lastOp.op = "confirmDeleteEntry"
    /\ existingEntry = Null

\* back on the calendar with a saved entry and no date selected
C30_BackWitness ==
    /\ view = "calendar" /\ selectedDate = "" /\ store # <<>>

====
